---- MODULE Spec2Model ----
(***************************************************************************)
(* Model of the AAS character rules engine (src/cogs/AAS.py,               *)
(* src/cogs/aas_data.py, src/cogs/aas/roller.py): the character store with *)
(* its pending list, session changelog and two-step delete, the derived    *)
(* value calculator, the percentile roll engine and the skill advancement  *)
(* state machine.                                                          *)
(*                                                                         *)
(* A stored character is the JSON document the cog writes: a record whose  *)
(* "skills" field is a function from the stored skill names to entries.    *)
(* An entry carries the key "extreme" only once a roll or an advancement   *)
(* has written it, exactly as the dict in the code does.                   *)
(* A pending description (an f-string in the code) is the record of the    *)
(* values the f-string interpolates.                                       *)
(***************************************************************************)
EXTENDS Integers, Sequences, FiniteSets, TLC

VARIABLES
    store,            \* owner id -> the owner's character file, or NoFile
    pending_deletes,  \* AAS._pending_deletes: owner id -> time of the request
    clock,            \* datetime.now(), in seconds
    importing,        \* owner id -> attachments whose read aas_import awaits
    last              \* the command handled last and what it answered

vars == <<store, pending_deletes, clock, importing, last>>

-----------------------------------------------------------------------------
(* Bounds of the model *)

MaxChanges == 2
MaxSessionChanges == 3
MaxAdvanceChanges == 3
MaxClock == 32
MaxMythosChanges == 3
MaxStatsChanges == 2
MaxWoundChanges == 2
MaxSkillChanges == 2
MaxRaceChanges == 1
MaxReads == 2
MaxDice == 2
MaxPortChanges == 1
MaxValueChanges == 2
MaxHurtChanges == 1

(* Program constants *)

DeleteWindow == 30
SkillCap == 99
CharMin == 1
CharMax == 99
DefaultLuckMax == 99

Owners == {"u1", "u2"}

NoFile == [absent |-> TRUE]

\* A file whose bytes are not a JSON document: empty or cut short.
Torn == [torn |-> TRUE]

Min(a, b) == IF a <= b THEN a ELSE b
Max(a, b) == IF a >= b THEN a ELSE b

-----------------------------------------------------------------------------
(* aas_data.py: the rules tables *)

CHARACTERISTICS == {"STR", "CON", "DEX", "SIZ", "POW", "APP", "INT", "EDU"}

RESOURCES == {"hp", "mp", "san", "luck", "xp"}

\* STANDARD_SKILLS in the dict's insertion order (the order the partial
\* match of get_skill_base walks).
STANDARD_SKILLS ==
    << [name |-> "Dodge", base |-> 0],
       [name |-> "Fighting (Brawl)", base |-> 25],
       [name |-> "Firearms (Handgun)", base |-> 20],
       [name |-> "Firearms (Rifle/Shotgun)", base |-> 25],
       [name |-> "Throw", base |-> 20],
       [name |-> "Library Use", base |-> 20],
       [name |-> "Listen", base |-> 20],
       [name |-> "Spot Hidden", base |-> 25],
       [name |-> "Track", base |-> 10],
       [name |-> "Charm", base |-> 15],
       [name |-> "Fast Talk", base |-> 5],
       [name |-> "Intimidate", base |-> 15],
       [name |-> "Persuade", base |-> 10],
       [name |-> "Psychology", base |-> 10],
       [name |-> "Art/Craft (Any)", base |-> 5],
       [name |-> "Electrical Repair", base |-> 10],
       [name |-> "First Aid", base |-> 30],
       [name |-> "Locksmith", base |-> 1],
       [name |-> "Mechanical Repair", base |-> 10],
       [name |-> "Medicine", base |-> 1],
       [name |-> "Operate Heavy Machinery", base |-> 1],
       [name |-> "Accounting", base |-> 5],
       [name |-> "Anthropology", base |-> 1],
       [name |-> "Appraise", base |-> 5],
       [name |-> "Archaeology", base |-> 1],
       [name |-> "Cthulhu Mythos", base |-> 0],
       [name |-> "History", base |-> 5],
       [name |-> "Law", base |-> 5],
       [name |-> "Natural World", base |-> 10],
       [name |-> "Occult", base |-> 5],
       [name |-> "Science (Any)", base |-> 1],
       [name |-> "Language (Own)", base |-> 0],
       [name |-> "Language (Other)", base |-> 1],
       [name |-> "Climb", base |-> 20],
       [name |-> "Drive Auto", base |-> 20],
       [name |-> "Jump", base |-> 20],
       [name |-> "Pilot (Any)", base |-> 1],
       [name |-> "Ride", base |-> 5],
       [name |-> "Stealth", base |-> 20],
       [name |-> "Swim", base |-> 20],
       [name |-> "Credit Rating", base |-> 0],
       [name |-> "Disguise", base |-> 5],
       [name |-> "Navigate", base |-> 10],
       [name |-> "Sleight of Hand", base |-> 10],
       [name |-> "Survival (Any)", base |-> 10] >>

StandardNames == {STANDARD_SKILLS[i].name : i \in 1..Len(STANDARD_SKILLS)}

StandardBase(n) ==
    STANDARD_SKILLS[CHOOSE i \in 1..Len(STANDARD_SKILLS) : STANDARD_SKILLS[i].name = n].base

\* SKILL_ALIASES, keyed by the lower-cased name.
SKILL_ALIASES ==
    [a \in {"brawl", "fight", "handgun", "pistol", "rifle", "shotgun", "spot",
            "library", "firstaid", "first-aid", "mythos", "elec repair",
            "mech repair", "heavy machinery", "own language", "native language"} |->
        CASE a \in {"brawl", "fight"} -> "Fighting (Brawl)"
          [] a \in {"handgun", "pistol"} -> "Firearms (Handgun)"
          [] a \in {"rifle", "shotgun"} -> "Firearms (Rifle/Shotgun)"
          [] a = "spot" -> "Spot Hidden"
          [] a = "library" -> "Library Use"
          [] a \in {"firstaid", "first-aid"} -> "First Aid"
          [] a = "mythos" -> "Cthulhu Mythos"
          [] a = "elec repair" -> "Electrical Repair"
          [] a = "mech repair" -> "Mechanical Repair"
          [] a = "heavy machinery" -> "Operate Heavy Machinery"
          [] OTHER -> "Language (Own)"]

\* str.lower() on the skill names the model feeds in.
StrLower(s) ==
    CASE s = "Library Use" -> "library use"
      [] s = "Mythos" -> "mythos"
      [] s = "Wizardry" -> "wizardry"
      [] s = "Dodge" -> "dodge"
      [] s = "Firearms (SMG)" -> "firearms (smg)"
      [] s = "Cthulhu Mythos" -> "cthulhu mythos"
      [] s = "Language (Own)" -> "language (own)"
      [] s = "Spot" -> "spot"
      [] OTHER -> s

\* name.split("(")[0].strip() on the skill names the model feeds in.
SplitBase(s) ==
    CASE s = "Firearms (SMG)" -> "Firearms"
      [] s = "Firearms (Handgun)" -> "Firearms"
      [] s = "Firearms (Rifle/Shotgun)" -> "Firearms"
      [] s = "Fighting (Brawl)" -> "Fighting"
      [] s = "Language (Own)" -> "Language"
      [] s = "Language (Other)" -> "Language"
      [] s = "Lore(Deep)" -> "Lore"
      [] s = "Lore (Deep)" -> "Lore"
      [] OTHER -> s

\* std.startswith(prefix), for the prefixes SplitBase produces in the model.
StartsWith(std, prefix) ==
    \/ std = prefix
    \/ prefix = "Firearms" /\ std \in {"Firearms (Handgun)", "Firearms (Rifle/Shotgun)"}
    \/ prefix = "Fighting" /\ std = "Fighting (Brawl)"
    \/ prefix = "Language" /\ std \in {"Language (Own)", "Language (Other)"}

\* Mutant: the name is taken as typed.
normalize_skill_name_Raw(skill_name) == skill_name

normalize_skill_name(skill_name) ==
    IF StrLower(skill_name) \in DOMAIN SKILL_ALIASES
    THEN SKILL_ALIASES[StrLower(skill_name)]
    ELSE skill_name

is_standard_skill(skill_name) ==
    LET normalized == normalize_skill_name(skill_name)
    IN  \/ normalized \in StandardNames
        \/ \E s \in StandardNames : StartsWith(s, SplitBase(normalized))

get_skill_base(skill_name, characteristics) ==
    LET normalized == normalize_skill_name(skill_name)
        hits == {i \in 1..Len(STANDARD_SKILLS) :
                    StartsWith(STANDARD_SKILLS[i].name, SplitBase(normalized))}
    IN  IF normalized \in StandardNames
        THEN IF DOMAIN characteristics # {} /\ normalized = "Dodge"
             THEN characteristics["DEX"] \div 2
             ELSE IF DOMAIN characteristics # {} /\ normalized = "Language (Own)"
             THEN characteristics["EDU"]
             ELSE StandardBase(normalized)
        ELSE IF hits # {}
        THEN STANDARD_SKILLS[CHOOSE i \in hits : \A j \in hits : i <= j].base
        ELSE 0

calc_hp_max(con, siz) == (con + siz) \div 10

\* Mutant: a tenth of POW.
calc_mp_max_Tenth(pow_stat) == pow_stat \div 10

calc_mp_max(pow_stat) == pow_stat \div 5

calc_sanity_max(mythos) == 99 - mythos

calc_major_wound_threshold(con) == con \div 2

\* Mutant: the extreme and hard thresholds are floored at 5.
get_success_level_Floored(roll, skill) ==
    LET extreme_threshold == Max(5, skill \div 5)
        hard_threshold == Max(5, skill \div 2)
    IN  IF roll = 1 THEN "critical"
        ELSE IF roll = 100 \/ (skill < 50 /\ roll >= 96) THEN "fumble"
        ELSE IF roll <= extreme_threshold THEN "extreme"
        ELSE IF roll <= hard_threshold THEN "hard"
        ELSE IF roll <= skill THEN "regular"
        ELSE "failure"

\* Mutant: the fumble range 96-99 also applies at a skill of exactly 50.
get_success_level_Wide(roll, skill) ==
    LET extreme_threshold == Max(1, skill \div 5)
        hard_threshold == Max(1, skill \div 2)
    IN  IF roll = 1 THEN "critical"
        ELSE IF roll = 100 \/ (skill <= 50 /\ roll >= 96) THEN "fumble"
        ELSE IF roll <= extreme_threshold THEN "extreme"
        ELSE IF roll <= hard_threshold THEN "hard"
        ELSE IF roll <= skill THEN "regular"
        ELSE "failure"

\* get_success_level(roll, skill)
get_success_level(roll, skill) ==
    LET extreme_threshold == Max(1, skill \div 5)
        hard_threshold == Max(1, skill \div 2)
    IN  IF roll = 1 THEN "critical"
        ELSE IF roll = 100 \/ (skill < 50 /\ roll >= 96) THEN "fumble"
        ELSE IF roll <= extreme_threshold THEN "extreme"
        ELSE IF roll <= hard_threshold THEN "hard"
        ELSE IF roll <= skill THEN "regular"
        ELSE "failure"

-----------------------------------------------------------------------------
(* Dict helpers *)

\* d[k] = v on a dict that may or may not hold k.
Put(d, k, v) == [x \in DOMAIN d \cup {k} |-> IF x = k THEN v ELSE d[x]]

\* d.get(k, default)
Get(d, k, default) == IF k \in DOMAIN d THEN d[k] ELSE default

\* The description of one change, as the f-strings of the cog render it:
\* "<what>: <old>-><new>" followed by a suffix that depends on the command.
Change(what, old, new, fmt, extra) ==
    [what |-> what, old |-> old, new |-> new, fmt |-> fmt, extra |-> extra]

Answer(op, o, reply) == [op |-> op, owner |-> o, reply |-> reply]

-----------------------------------------------------------------------------
(* AAS.py: persistence helpers *)

\* _load_character: None when the owner has no file, and None (after
\* logging the JSONDecodeError) when the file does not parse.
load_character(o) == IF store[o] = Torn THEN NoFile ELSE store[o]

HasCharacter(o) == load_character(o) # NoFile

\* Mutant: one file for all owners.
save_character_Shared(o, character) ==
    store' = [p \in Owners |-> [character EXCEPT !.last_updated = clock]]

\* Mutant: a file that exists is not replaced.
save_character_Guarded(o, character) ==
    store' = IF store[o] \notin {NoFile, Torn} THEN store
             ELSE [store EXCEPT ![o] = [character EXCEPT !.last_updated = clock]]

\* _save_character: stamps last_updated and rewrites the whole file.
save_character(o, character) ==
    store' = [store EXCEPT ![o] = [character EXCEPT !.last_updated = clock]]

\* A _save_character that does not complete: open(path, 'w') raises and the
\* file is as it was, or the file has been truncated by open and json.dump
\* raises IOError or the process stops before the document is written out.
FailedWriteOutcomes == {"not opened", "truncated"}

save_character_fails(o, outcome) ==
    /\ store[o] # NoFile
    /\ store' = IF outcome = "truncated" THEN [store EXCEPT ![o] = Torn] ELSE store
    /\ last' = [op |-> "write failed", owner |-> o, reply |-> "IOError", outcome |-> outcome]
    /\ UNCHANGED <<pending_deletes, clock, importing>>

\* Mutant: the change is recorded in a pending list that starts empty, as
\* if the record had been loaded before the earlier changes were saved.
add_pending_change_Stale(character, change) ==
    [character EXCEPT !.pending = <<change>>]

\* Mutant: recording a change also starts a new version.
add_pending_change_Versioned(character, change) ==
    [character EXCEPT !.pending = Append(@, change), !.version = @ + 1]

add_pending_change(character, change) ==
    [character EXCEPT !.pending = Append(@, change)]

\* Number of descriptions a file holds, pending and recorded.
RECURSIVE CountChanges(_)
CountChanges(changelog) ==
    IF changelog = <<>> THEN 0
    ELSE Len(Head(changelog).changes) + CountChanges(Tail(changelog))

\* The specifications bound the descriptions a file holds: a command that
\* could append one more is issued only while there is room.
Room(o, bound) ==
    IF HasCharacter(o)
    THEN Len(load_character(o).pending) + CountChanges(load_character(o).changelog) < bound
    ELSE TRUE

\* _recalc_derived
recalc_derived(character) ==
    LET chars == character.characteristics
        resources == character.resources
        skills == character.skills
        con == Get(chars, "CON", 0)
        siz == Get(chars, "SIZ", 0)
        pow_stat == Get(chars, "POW", 0)
        new_hp_max == calc_hp_max(con, siz)
        new_mp_max == calc_mp_max(pow_stat)
        mythos == Get(Get(skills, "Cthulhu Mythos", [none |-> 0]), "value", 0)
        new_san_max == calc_sanity_max(mythos)
        r1 == IF "hp" \notin DOMAIN resources
              THEN Put(resources, "hp", [current |-> new_hp_max, max |-> new_hp_max])
              ELSE Put(resources, "hp", Put(resources["hp"], "max", new_hp_max))
        r2 == IF "mp" \notin DOMAIN r1
              THEN Put(r1, "mp", [current |-> new_mp_max, max |-> new_mp_max])
              ELSE Put(r1, "mp", Put(r1["mp"], "max", new_mp_max))
        r3 == IF "sanity" \notin DOMAIN r2
              THEN Put(r2, "sanity",
                       [current |-> pow_stat, max |-> new_san_max, mythos |-> mythos])
              ELSE Put(r2, "sanity",
                       Put(Put(r2["sanity"], "max", new_san_max), "mythos", mythos))
    IN  [character EXCEPT !.resources = r3]

\* Mutant: a new record starts at version 0 with sanity.max 0.
NewCharacter_Blank(name, occupation, now) ==
    [name |-> name,
     occupation |-> occupation,
     created_at |-> now,
     last_updated |-> now,
     version |-> 0,
     characteristics |-> [c \in CHARACTERISTICS |-> 0],
     resources |-> [hp |-> [current |-> 0, max |-> 0],
                    mp |-> [current |-> 0, max |-> 0],
                    luck |-> [current |-> 0, starting |-> 0],
                    sanity |-> [current |-> 0, max |-> 0, mythos |-> 0],
                    xp |-> 0],
     skills |-> [n \in {} |-> [value |-> 0]],
     conditions |-> [major_wound |-> FALSE],
     pending |-> <<>>,
     changelog |-> <<>>]

\* The document aas_create writes.
NewCharacter(name, occupation, now) ==
    [name |-> name,
     occupation |-> occupation,
     created_at |-> now,
     last_updated |-> now,
     version |-> 1,
     characteristics |-> [c \in CHARACTERISTICS |-> 0],
     resources |-> [hp |-> [current |-> 0, max |-> 0],
                    mp |-> [current |-> 0, max |-> 0],
                    luck |-> [current |-> 0, starting |-> 0],
                    sanity |-> [current |-> 0, max |-> 99, mythos |-> 0],
                    xp |-> 0],
     skills |-> [n \in {} |-> [value |-> 0]],
     conditions |-> [major_wound |-> FALSE],
     pending |-> <<>>,
     changelog |-> <<>>]

-----------------------------------------------------------------------------
(* Group 1: character management *)

aas_create(o, name, occupation) ==
    /\ IF HasCharacter(o)
       THEN /\ UNCHANGED store
            /\ last' = Answer("create", o, "AlreadyExists")
       ELSE /\ save_character(o, NewCharacter(name, occupation, clock))
            /\ last' = Answer("create", o, "ok")
    /\ UNCHANGED <<pending_deletes, clock, importing>>

\* values: the eight integers of the command, keyed by characteristic.
aas_stats(o, values) ==
    /\ IF ~HasCharacter(o)
       THEN /\ UNCHANGED store
            /\ last' = Answer("stats", o, "NoCharacter")
       ELSE IF \E c \in CHARACTERISTICS : values[c] < CharMin \/ values[c] > CharMax
       THEN /\ UNCHANGED store
            /\ last' = [op |-> "stats", owner |-> o, reply |-> "ValidationError",
                        values |-> values]
       ELSE LET character == load_character(o)
                c1 == recalc_derived([character EXCEPT !.characteristics = values])
                res == c1.resources
                r1 == [res EXCEPT !.hp.current = res.hp.max,
                                  !.mp.current = res.mp.max,
                                  !.sanity.current = c1.characteristics["POW"],
                                  !.luck.current = 0,
                                  !.luck.starting = 0]
            IN  /\ save_character(o, [c1 EXCEPT !.resources = r1])
                /\ last' = [op |-> "stats", owner |-> o, reply |-> "ok", values |-> values]
    /\ UNCHANGED <<pending_deletes, clock, importing>>

\* The value argument of "set" and of the quick resource commands is a string;
\* it is modelled by the form the handler parses it into:
\*   [form |-> "abs", n |-> k]    digits only: int(value) = k, is_delta false
\*   [form |-> "delta", n |-> k]  a leading + or -: int(value) = k, is_delta true
\*   [form |-> "max", n |-> 0]    the keyword max
\*   [form |-> "bad", n |-> 0]    anything else
\*   [form |-> "dice", n |-> k]   (san only) +/-NdM whose dice summed to |k|
\*   [form |-> "none", n |-> 0]   (quick commands only) no argument
SetResourceKey(target_lower) ==
    CASE target_lower = "hp" -> "hp"
      [] target_lower = "mp" -> "mp"
      [] target_lower = "san" -> "sanity"
      [] target_lower = "luck" -> "luck"

\* Mutant: landing exactly on the threshold is no major wound.
MajorWoundStep_Strict(character, old_val, new_val) ==
    LET con == Get(character.characteristics, "CON", 0)
        threshold == calc_major_wound_threshold(con)
    IN  IF new_val < threshold /\ old_val > threshold
        THEN [character EXCEPT !.conditions.major_wound = TRUE]
        ELSE character

\* The major-wound step shared by aas_set and _resource_command: run after
\* the save, it sets the flag and saves again.
MajorWoundStep(character, old_val, new_val) ==
    LET con == Get(character.characteristics, "CON", 0)
        threshold == calc_major_wound_threshold(con)
    IN  IF new_val <= threshold /\ old_val > threshold
        THEN [character EXCEPT !.conditions.major_wound = TRUE]
        ELSE character

\* Mutant: the characteristic is capped at 99 only.
ClampChar_Open(raw) == Min(CharMax, raw)

\* max(1, min(99, new_val))
ClampChar(raw) == Max(CharMin, Min(CharMax, raw))

aas_set(o, target, value) ==
    /\ IF ~HasCharacter(o)
       THEN /\ UNCHANGED store
            /\ last' = Answer("set", o, "NoCharacter")
       ELSE IF value.form = "bad"
       THEN /\ UNCHANGED store
            /\ last' = Answer("set", o, "ValidationError")
       ELSE LET character == load_character(o)
                is_delta == value.form = "delta"
                is_max == value.form = "max"
                num_value == value.n
            IN  IF target \in CHARACTERISTICS
                THEN IF is_max
                     THEN \* min(99, None) raises TypeError before anything is written
                          /\ UNCHANGED store
                          /\ last' = Answer("set", o, "UnhandledError")
                     ELSE LET old_val == Get(character.characteristics, target, 0)
                              raw == IF is_delta THEN old_val + num_value ELSE num_value
                              new_val == ClampChar(raw)
                              c1 == [character EXCEPT !.characteristics[target] = new_val]
                              c2 == recalc_derived(c1)
                              c3 == add_pending_change(c2, Change(target, old_val, new_val, "set", 0))
                          IN  /\ save_character(o, c3)
                              /\ last' = Answer("set", o, "ok")
                ELSE IF target \in RESOURCES
                THEN IF target = "xp"
                     THEN IF is_max
                          THEN \* max(0, None) raises TypeError
                               /\ UNCHANGED store
                               /\ last' = Answer("set", o, "UnhandledError")
                          ELSE LET old_val == Get(character.resources, "xp", 0)
                                   raw == IF is_delta THEN old_val + num_value ELSE num_value
                                   new_val == Max(0, raw)
                                   c1 == [character EXCEPT !.resources.xp = new_val]
                                   c2 == add_pending_change(c1, Change("xp", old_val, new_val, "set", 0))
                               IN  /\ save_character(o, c2)
                                   /\ last' = Answer("set", o, "ok")
                     ELSE LET res_key == SetResourceKey(target)
                              res == Get(character.resources, res_key, [current |-> 0, max |-> 0])
                              old_val == Get(res, "current", 0)
                              max_val == Get(res, "max", DefaultLuckMax)
                              raw == IF is_max THEN max_val
                                     ELSE IF is_delta THEN old_val + num_value
                                     ELSE num_value
                              new_val == IF target # "hp"
                                         THEN Max(0, Min(max_val, raw))
                                         ELSE Min(max_val, raw)
                              c1 == [character EXCEPT
                                        !.resources = Put(@, res_key, Put(res, "current", new_val))]
                              c2 == add_pending_change(c1,
                                        Change(target, old_val, new_val, "set",
                                               IF is_delta THEN num_value ELSE 0))
                              c3 == IF target = "hp" THEN MajorWoundStep(c2, old_val, new_val) ELSE c2
                          IN  /\ save_character(o, c3)
                              /\ last' = Answer("set", o, "ok")
                ELSE /\ UNCHANGED store
                     /\ last' = Answer("set", o, "UnknownTarget")
    /\ UNCHANGED <<pending_deletes, clock, importing>>

aas_skill(o, skill_name, value) ==
    /\ IF ~HasCharacter(o)
       THEN /\ UNCHANGED store
            /\ last' = Answer("skillset", o, "NoCharacter")
       ELSE LET character == load_character(o)
                v == Max(0, Min(SkillCap, value))
                normalized == normalize_skill_name(skill_name)
                is_custom == ~is_standard_skill(normalized)
                skills == character.skills
                old_data == Get(skills, normalized, [none |-> 0])
                old_val == Get(old_data, "value", 0)
                entry == [value |-> v,
                          checked |-> Get(old_data, "checked", FALSE),
                          eligible |-> Get(old_data, "eligible", FALSE),
                          custom |-> is_custom]
                c1 == [character EXCEPT !.skills = Put(skills, normalized, entry)]
                c2 == IF normalized = "Cthulhu Mythos" THEN recalc_derived(c1) ELSE c1
                c3 == add_pending_change(c2, Change(normalized, old_val, v, "skill", 0))
            IN  /\ save_character(o, c3)
                /\ last' = [op |-> "skillset", owner |-> o, reply |-> "ok", skill |-> normalized,
                            name |-> skill_name, value |-> value]
    /\ UNCHANGED <<pending_deletes, clock, importing>>

-----------------------------------------------------------------------------
(* aas/roller.py: the percentile roll engine *)

\* A modifier or difficulty argument is a string; it is modelled by what the
\* handlers look at:
\*   [kind |-> "none"]                          argument not given
\*   [kind |-> "mod", sign |-> "+", count |-> k]   matches ^([+-])(\d+)$
\*   [kind |-> "word", word |-> w]              any other text
NoArg == [kind |-> "none"]
Mod(sign, count) == [kind |-> "mod", sign |-> sign, count |-> count]
Word(w) == [kind |-> "word", word |-> w]

\* parse_modifier: <<bonus_dice, penalty_dice>>
parse_modifier(modifier) ==
    IF modifier.kind # "mod" THEN <<0, 0>>
    ELSE IF modifier.sign = "+" THEN <<modifier.count, 0>>
    ELSE <<0, modifier.count>>

\* Mutant: the first die is kept.
SeqMin_First(s) == s[1]

SeqMin(s) == CHOOSE x \in {s[i] : i \in DOMAIN s} : \A i \in DOMAIN s : x <= s[i]
\* Mutant: the lowest die is kept for a penalty as well.
SeqMax_Lowest(s) == SeqMin(s)

SeqMax(s) == CHOOSE x \in {s[i] : i \in DOMAIN s} : \A i \in DOMAIN s : x >= s[i]

\* Number of tens dice roll_d100 throws.
TensDiceCount(bonus_dice, penalty_dice) ==
    LET net_modifier == bonus_dice - penalty_dice
    IN  IF net_modifier > 0 THEN 1 + net_modifier
        ELSE IF net_modifier < 0 THEN 1 - net_modifier
        ELSE 1

\* Mutant: 00 and 0 give 0.
roll_d100_Zero(bonus_dice, penalty_dice, units_face, tens_faces) ==
    LET units == units_face % 10
        net_modifier == bonus_dice - penalty_dice
        kept_face == IF net_modifier > 0 THEN SeqMin(tens_faces)
                     ELSE IF net_modifier < 0 THEN SeqMax(tens_faces)
                     ELSE tens_faces[1]
        kept_tens == kept_face % 10
        tens_rolls == [i \in DOMAIN tens_faces |-> tens_faces[i] % 10]
    IN  [final_roll |-> kept_tens * 10 + units, tens_rolls |-> tens_rolls, units |-> units]

\* roll_d100, given the faces (1..10) the dice thrower produced: one units
\* die and TensDiceCount tens dice. The thrower's kl1/kh1 keeps the lowest/
\* highest face.
roll_d100(bonus_dice, penalty_dice, units_face, tens_faces) ==
    LET units == units_face % 10
        net_modifier == bonus_dice - penalty_dice
        kept_face == IF net_modifier > 0 THEN SeqMin(tens_faces)
                     ELSE IF net_modifier < 0 THEN SeqMax(tens_faces)
                     ELSE tens_faces[1]
        kept_tens == kept_face % 10
        tens_rolls == [i \in DOMAIN tens_faces |-> tens_faces[i] % 10]
        final_roll == IF kept_tens = 0 /\ units = 0 THEN 100
                      ELSE IF kept_tens * 10 + units = 0 THEN 100
                      ELSE kept_tens * 10 + units
    IN  [final_roll |-> final_roll, tens_rolls |-> tens_rolls, units |-> units]

\* skill_check: the RollResult
skill_check(skill_name, skill_value, difficulty, bonus_dice, penalty_dice, is_base, is_custom, units_face, tens_faces) ==
    LET target == IF difficulty = "hard" THEN Max(1, skill_value \div 2)
                  ELSE IF difficulty = "extreme" THEN Max(1, skill_value \div 5)
                  ELSE skill_value
        r == roll_d100(bonus_dice, penalty_dice, units_face, tens_faces)
    IN  [roll |-> r.final_roll,
         target |-> skill_value,
         success_level |-> get_success_level(r.final_roll, target),
         difficulty |-> difficulty,
         bonus_dice |-> bonus_dice,
         penalty_dice |-> penalty_dice,
         tens_rolls |-> r.tens_rolls,
         units_roll |-> r.units,
         skill_name |-> skill_name,
         is_base |-> is_base,
         is_custom |-> is_custom]

\* RollResult.is_success
is_success(result) == result.success_level \in {"critical", "extreme", "hard", "regular"}

\* Mutant: the nominal value at every difficulty.
effective_target_Nominal(result) == result.target

\* RollResult.effective_target
effective_target(result) ==
    IF result.difficulty = "hard" THEN Max(1, result.target \div 2)
    ELSE IF result.difficulty = "extreme" THEN Max(1, result.target \div 5)
    ELSE result.target

characteristic_check(char_name, char_value, difficulty, bonus_dice, penalty_dice, units_face, tens_faces) ==
    skill_check(char_name, char_value, difficulty, bonus_dice, penalty_dice,
                FALSE, FALSE, units_face, tens_faces)

-----------------------------------------------------------------------------
(* Group 2: dice rolling *)

\* The first lines of cmd_skill and cmd_char: a difficulty that starts with
\* + or - is the modifier.
EffDifficulty(difficulty) == IF difficulty.kind = "mod" THEN Word("regular") ELSE difficulty
EffModifier(difficulty, modifier) == IF difficulty.kind = "mod" THEN difficulty ELSE modifier

\* Bonus and penalty dice cmd_skill and cmd_char roll with.
\* Mutant: a major wound adds no die.
RollDice_Unhurt(character, difficulty, modifier) ==
    LET m == EffModifier(difficulty, modifier)
    IN  IF m.kind # "none" THEN parse_modifier(m) ELSE <<0, 0>>

RollDice(character, difficulty, modifier) ==
    LET m == EffModifier(difficulty, modifier)
        bp == IF m.kind # "none" THEN parse_modifier(m) ELSE <<0, 0>>
        wound == Get(Get(character, "conditions", [none |-> 0]), "major_wound", FALSE)
    IN  <<bp[1], IF wound THEN bp[2] + 1 ELSE bp[2]>>

\* The auto-check of cmd_skill
AutoCheck(skills, normalized, skill_value, is_custom, result) ==
    LET s1 == IF normalized \notin DOMAIN skills
              THEN Put(skills, normalized,
                       [value |-> skill_value, checked |-> FALSE,
                        eligible |-> FALSE, custom |-> is_custom])
              ELSE skills
        s2 == Put(s1, normalized, Put(s1[normalized], "checked", TRUE))
    IN  IF result.success_level = "extreme"
        THEN Put(s2, normalized, Put(s2[normalized], "extreme", TRUE))
        ELSE s2

cmd_skill(o, skill_name, difficulty, modifier, units_face, tens_faces) ==
    /\ IF ~HasCharacter(o)
       THEN /\ UNCHANGED store
            /\ last' = Answer("roll", o, "NoCharacter")
       ELSE IF EffDifficulty(difficulty) \notin {Word("regular"), Word("hard"), Word("extreme")}
       THEN /\ UNCHANGED store
            /\ last' = Answer("roll", o, "ValidationError")
       ELSE LET character == load_character(o)
                diff == EffDifficulty(difficulty).word
                normalized == normalize_skill_name(skill_name)
                skills == character.skills
                skill_data == Get(skills, normalized, [none |-> 0])
                stored == normalized \in DOMAIN skills
                standard == is_standard_skill(normalized)
                skill_value == IF stored THEN Get(skill_data, "value", 0)
                               ELSE IF standard
                               THEN get_skill_base(normalized, character.characteristics)
                               ELSE 0
                is_base == ~stored /\ standard
                is_custom == IF stored THEN Get(skill_data, "custom", FALSE)
                             ELSE ~standard
                dice == RollDice(character, difficulty, modifier)
                result == skill_check(normalized, skill_value, diff, dice[1], dice[2],
                                      is_base, is_custom, units_face, tens_faces)
            IN  /\ Len(tens_faces) = TensDiceCount(dice[1], dice[2])
                /\ IF is_success(result) /\ ~is_base
                   THEN save_character(o,
                            [character EXCEPT !.skills =
                                AutoCheck(skills, normalized, skill_value, is_custom, result)])
                   ELSE UNCHANGED store
                /\ last' = [op |-> "roll", owner |-> o, reply |-> "ok",
                            skill |-> normalized, roll |-> result.roll,
                            success_level |-> result.success_level,
                            is_base |-> result.is_base,
                            said_checked |-> is_success(result),
                            modifier |-> EffModifier(difficulty, modifier),
                            dice |-> dice, faces |-> tens_faces,
                            tens_rolls |-> result.tens_rolls]
    /\ UNCHANGED <<pending_deletes, clock, importing>>

cmd_char(o, char_name, difficulty, modifier, units_face, tens_faces) ==
    /\ IF ~HasCharacter(o)
       THEN last' = Answer("char", o, "NoCharacter")
       ELSE IF char_name \notin CHARACTERISTICS
       THEN last' = Answer("char", o, "ValidationError")
       ELSE IF EffDifficulty(difficulty) \notin {Word("regular"), Word("hard"), Word("extreme")}
       THEN last' = Answer("char", o, "ValidationError")
       ELSE LET character == load_character(o)
                diff == EffDifficulty(difficulty).word
                char_value == Get(character.characteristics, char_name, 0)
                dice == RollDice(character, difficulty, modifier)
                result == characteristic_check(char_name, char_value, diff, dice[1], dice[2],
                                               units_face, tens_faces)
            IN  /\ Len(tens_faces) = TensDiceCount(dice[1], dice[2])
                /\ last' = [op |-> "char", owner |-> o, reply |-> "ok",
                            skill |-> char_name, roll |-> result.roll,
                            success_level |-> result.success_level,
                            is_base |-> result.is_base,
                            said_checked |-> FALSE,
                            modifier |-> EffModifier(difficulty, modifier),
                            dice |-> dice, faces |-> tens_faces,
                            tens_rolls |-> result.tens_rolls]
    /\ UNCHANGED <<store, pending_deletes, clock, importing>>

-----------------------------------------------------------------------------
(* Group 3: resource tracking *)

cmd_san(o, delta) ==
    /\ IF ~HasCharacter(o)
       THEN /\ UNCHANGED store
            /\ last' = Answer("san", o, "NoCharacter")
       ELSE IF delta.form = "none"
       THEN /\ UNCHANGED store
            /\ last' = Answer("san", o, "view")
       ELSE IF delta.form = "bad"
       THEN /\ UNCHANGED store
            /\ last' = Answer("san", o, "ValidationError")
       ELSE LET character == load_character(o)
                san == Get(character.resources, "sanity", [current |-> 0, max |-> 99])
                change == IF delta.form = "max" THEN san.max - san.current ELSE delta.n
                old_val == san.current
                new_val == Max(0, Min(san.max, old_val + change))
                c1 == [character EXCEPT
                          !.resources = Put(@, "sanity", Put(san, "current", new_val))]
                c2 == add_pending_change(c1,
                          IF delta.form = "dice"
                          THEN Change("san", old_val, new_val, "san_dice",
                                      IF delta.n < 0 THEN -delta.n ELSE delta.n)
                          ELSE Change("san", old_val, new_val, "san", 0))
            IN  /\ save_character(o, c2)
                /\ last' = Answer("san", o, "ok")
    /\ UNCHANGED <<pending_deletes, clock, importing>>

\* _resource_command, behind cmd_hp, cmd_mp and cmd_luck. res['max'] on a
\* resource without the key "max" raises KeyError.
resource_command(o, resource, delta) ==
    /\ IF ~HasCharacter(o)
       THEN /\ UNCHANGED store
            /\ last' = Answer(resource, o, "NoCharacter")
       ELSE LET character == load_character(o)
                res == Get(character.resources, resource, [current |-> 0, max |-> 0])
            IN  IF delta.form = "none"
                THEN /\ UNCHANGED store
                     /\ last' = Answer(resource, o,
                                       IF "max" \in DOMAIN res THEN "view" ELSE "UnhandledError")
                ELSE IF delta.form \in {"bad", "dice"}
                THEN /\ UNCHANGED store
                     /\ last' = Answer(resource, o, "ValidationError")
                ELSE IF "max" \notin DOMAIN res
                THEN /\ UNCHANGED store
                     /\ last' = Answer(resource, o, "UnhandledError")
                ELSE LET change == IF delta.form = "max" THEN res.max - res.current ELSE delta.n
                         old_val == res.current
                         raw == old_val + change
                         new_val == IF resource # "hp"
                                    THEN Max(0, Min(res.max, raw))
                                    ELSE Min(res.max, raw)
                         c1 == [character EXCEPT
                                   !.resources = Put(@, resource, Put(res, "current", new_val))]
                         c2 == add_pending_change(c1,
                                   Change(resource, old_val, new_val, "quick", change))
                         c3 == IF resource = "hp" THEN MajorWoundStep(c2, old_val, new_val) ELSE c2
                     IN  /\ save_character(o, c3)
                         /\ last' = Answer(resource, o, "ok")
    /\ UNCHANGED <<pending_deletes, clock, importing>>

-----------------------------------------------------------------------------
(* Group 4: skill advancement *)

aas_check(o, skill_name) ==
    /\ IF ~HasCharacter(o)
       THEN /\ UNCHANGED store
            /\ last' = Answer("check", o, "NoCharacter")
       ELSE LET character == load_character(o)
                normalized == normalize_skill_name(skill_name)
                skills == character.skills
                is_custom == ~is_standard_skill(normalized)
                base_val == IF ~is_custom
                            THEN get_skill_base(normalized, character.characteristics)
                            ELSE 0
                s1 == IF normalized \notin DOMAIN skills
                      THEN Put(skills, normalized,
                               [value |-> base_val, checked |-> TRUE,
                                eligible |-> FALSE, custom |-> is_custom])
                      ELSE Put(skills, normalized, Put(skills[normalized], "checked", TRUE))
            IN  /\ save_character(o, [character EXCEPT !.skills = s1])
                /\ last' = [op |-> "check", owner |-> o, reply |-> "ok", skill |-> normalized]
    /\ UNCHANGED <<pending_deletes, clock, importing>>

\* The names aas_advance rolls for.
CheckedSkills(skills) == {n \in DOMAIN skills : Get(skills[n], "checked", FALSE)}

\* One advancement roll: 2d100kh1 for an extreme check mark, 1d100 otherwise.
\* d is the pair of d100 faces available to the roll.
AdvanceRoll(skill_data, d) ==
    IF Get(skill_data, "extreme", FALSE) THEN Max(d[1], d[2]) ELSE d[1]

\* Mutant: a roll equal to the value passes.
AdvanceEntry_Lenient(skill_data, roll) ==
    LET skill_value == Get(skill_data, "value", 0)
        e1 == IF roll >= skill_value THEN Put(skill_data, "eligible", TRUE) ELSE skill_data
    IN  Put(Put(e1, "checked", FALSE), "extreme", FALSE)

\* Mutant: every advancement roll passes.
AdvanceEntry_Always(skill_data, roll) ==
    Put(Put(Put(skill_data, "eligible", TRUE), "checked", FALSE), "extreme", FALSE)

\* The entry of a checked skill after its advancement roll.
AdvanceEntry(skill_data, roll) ==
    LET skill_value == Get(skill_data, "value", 0)
        e1 == IF roll > skill_value THEN Put(skill_data, "eligible", TRUE) ELSE skill_data
    IN  Put(Put(e1, "checked", FALSE), "extreme", FALSE)

\* dice: for every checked skill, the pair of d100 faces its roll may use.
aas_advance(o, dice) ==
    /\ IF ~HasCharacter(o)
       THEN /\ UNCHANGED store
            /\ last' = Answer("advance", o, "NoCharacter")
            /\ dice = <<>>
       ELSE LET character == load_character(o)
                skills == character.skills
                checked_skills == CheckedSkills(skills)
                rolls == [n \in checked_skills |-> AdvanceRoll(skills[n], dice[n])]
            IN  /\ DOMAIN dice = checked_skills
                /\ IF checked_skills = {}
                   THEN /\ UNCHANGED store
                        /\ last' = Answer("advance", o, "NoneChecked")
                   ELSE /\ save_character(o,
                               [character EXCEPT !.skills =
                                   [n \in DOMAIN skills |->
                                       IF n \in checked_skills
                                       THEN AdvanceEntry(skills[n], rolls[n])
                                       ELSE skills[n]]])
                        /\ last' = [op |-> "advance", owner |-> o, reply |-> "ok",
                                    dice |-> dice, rolls |-> rolls]
    /\ UNCHANGED <<pending_deletes, clock, importing>>

\* Mutant: the pool is compared with the default amount of one point.
InsufficientXP_Default(xp, amount) == xp < 1

\* The third guard of aas_spend.
InsufficientXP(xp, amount) == xp < amount

\* Mutant: the requested amount is deducted, whatever the cap let through.
SpendResult_Requested(old_val, xp, amount) ==
    LET new_val == Min(SkillCap, old_val + amount)
    IN  [value |-> new_val, xp |-> xp - amount]

\* The skill value and the XP pool after a spend that passed the guards.
SpendResult(old_val, xp, amount) ==
    LET new_val == Min(SkillCap, old_val + amount)
        actual_gain == new_val - old_val
    IN  [value |-> new_val, xp |-> xp - actual_gain]

aas_spend(o, skill_name, amount) ==
    /\ IF ~HasCharacter(o)
       THEN /\ UNCHANGED store
            /\ last' = Answer("spend", o, "NoCharacter")
       ELSE LET character == load_character(o)
                normalized == normalize_skill_name(skill_name)
                skills == character.skills
                resources == character.resources
                xp == Get(resources, "xp", 0)
                said(reply) == [op |-> "spend", owner |-> o, reply |-> reply,
                                skill |-> normalized, amount |-> amount]
            IN  IF normalized \notin DOMAIN skills
                THEN /\ UNCHANGED store
                     /\ last' = said("NotFound")
                ELSE IF ~Get(skills[normalized], "eligible", FALSE)
                THEN /\ UNCHANGED store
                     /\ last' = said("NotEligible")
                ELSE IF InsufficientXP(xp, amount)
                THEN /\ UNCHANGED store
                     /\ last' = said("InsufficientXP")
                ELSE LET old_val == Get(skills[normalized], "value", 0)
                         r == SpendResult(old_val, xp, amount)
                         e == Put(Put(skills[normalized], "value", r.value), "eligible", FALSE)
                         c1 == [character EXCEPT !.skills = Put(skills, normalized, e),
                                                 !.resources = Put(resources, "xp", r.xp)]
                         c2 == add_pending_change(c1,
                                   Change(normalized, old_val, r.value, "advanced", 0))
                     IN  /\ save_character(o, c2)
                         /\ last' = said("ok")
    /\ UNCHANGED <<pending_deletes, clock, importing>>

-----------------------------------------------------------------------------
(* Group 5: session management *)

\* f"Session {version}"
SessionNote(version) ==
    CASE version = 1 -> "Session 1"
      [] version = 2 -> "Session 2"
      [] version = 3 -> "Session 3"
      [] version = 4 -> "Session 4"
      [] version = 5 -> "Session 5"
      [] OTHER -> "Session n"

\* Mutant: the entry keeps only the changes the reply lists (pending[:5] in
\* the code; the first one here).
SaveEntry_Truncated(version, now, note, pending) ==
    [v |-> version,
     ts |-> now,
     note |-> IF note # "" THEN note ELSE SessionNote(version),
     changes |-> SubSeq(pending, 1, 1)]

\* The changelog entry aas_save builds.
SaveEntry(version, now, note, pending) ==
    [v |-> version,
     ts |-> now,
     note |-> IF note # "" THEN note ELSE SessionNote(version),
     changes |-> pending]

aas_save(o, note) ==
    /\ IF ~HasCharacter(o)
       THEN /\ UNCHANGED store
            /\ last' = Answer("save", o, "NoCharacter")
       ELSE LET character == load_character(o)
                pending == Get(character, "pending", <<>>)
            IN  IF pending = <<>>
                THEN /\ UNCHANGED store
                     /\ last' = Answer("save", o, "NoPendingChanges")
                ELSE LET version == Get(character, "version", 0) + 1
                         entry == SaveEntry(version, clock, note, pending)
                         changelog == Get(character, "changelog", <<>>)
                     IN  /\ save_character(o,
                                [character EXCEPT !.version = version,
                                                  !.changelog = <<entry>> \o changelog,
                                                  !.pending = <<>>])
                         /\ last' = [op |-> "save", owner |-> o, reply |-> "ok", note |-> note]
    /\ UNCHANGED <<pending_deletes, clock, importing>>

-----------------------------------------------------------------------------
(* Group 6: conditions *)

aas_wound(o, state) ==
    /\ IF ~HasCharacter(o)
       THEN /\ UNCHANGED store
            /\ last' = Answer("wound", o, "NoCharacter")
       ELSE IF state \notin {NoArg, Word("on"), Word("off")}
       THEN /\ UNCHANGED store
            /\ last' = Answer("wound", o, "ValidationError")
       ELSE LET character == load_character(o)
                conditions == Get(character, "conditions", [n \in {} |-> FALSE])
                current == Get(conditions, "major_wound", FALSE)
                new_state == IF state = NoArg THEN ~current ELSE state = Word("on")
            IN  /\ save_character(o,
                       [character EXCEPT !.conditions = Put(conditions, "major_wound", new_state)])
                /\ last' = Answer("wound", o, "ok")
    /\ UNCHANGED <<pending_deletes, clock, importing>>

-----------------------------------------------------------------------------
(* Two-step delete *)

\* Mutant: the window is open for less than 30 seconds.
ConfirmAccepted_Strict(o, now) ==
    /\ o \in DOMAIN pending_deletes
    /\ now - pending_deletes[o] < DeleteWindow

\* Mutant: the request stays on record after the file is deleted.
ForgetRequest_Kept(requests, o) == requests

\* del self._pending_deletes[user_id]
ForgetRequest(requests, o) == [x \in DOMAIN requests \ {o} |-> requests[x]]

\* The test aas_delete makes on a confirm: a request is on record and at most
\* 30 seconds old.
ConfirmAccepted(o, now) ==
    /\ o \in DOMAIN pending_deletes
    /\ now - pending_deletes[o] <= DeleteWindow

\* confirm: the optional argument, lower-cased.
aas_delete(o, confirm) ==
    /\ IF ~HasCharacter(o)
       THEN /\ UNCHANGED <<store, pending_deletes>>
            /\ last' = Answer("delete", o, "NoCharacter")
       ELSE IF confirm = Word("confirm")
       THEN IF ConfirmAccepted(o, clock)
            THEN /\ store' = [store EXCEPT ![o] = NoFile]
                 /\ pending_deletes' = ForgetRequest(pending_deletes, o)
                 /\ last' = Answer("delete", o, "deleted")
            ELSE /\ UNCHANGED <<store, pending_deletes>>
                 /\ last' = Answer("delete", o, "NoPendingDelete")
       ELSE /\ pending_deletes' = Put(pending_deletes, o, clock)
            /\ UNCHANGED store
            /\ last' = Answer("delete", o, "ConfirmRequested")
    /\ UNCHANGED <<clock, importing>>

\* Time passes between two commands.
Tick(d) ==
    /\ clock + d <= MaxClock
    /\ clock' = clock + d
    /\ last' = Answer("tick", "", "ok")
    /\ UNCHANGED <<store, pending_deletes, importing>>

-----------------------------------------------------------------------------
(* aas_importer.py: Dhole's House documents *)

\* A JSON value the importer converts with _safe_int: a string (the list of
\* its characters), a number or null.
JStr(chars) == [t |-> "str", s |-> chars]
JInt(n) == [t |-> "int", v |-> n]
JNull == [t |-> "null"]

DigitChars == <<"0", "1", "2", "3", "4", "5", "6", "7", "8", "9">>

IsDigit(ch) == \E d \in 1..10 : DigitChars[d] = ch

DigitOf(ch) == (CHOOSE d \in 1..10 : DigitChars[d] = ch) - 1

RECURSIVE StrNat(_)
StrNat(n) == IF n < 10 THEN <<DigitChars[n + 1]>> ELSE StrNat(n \div 10) \o <<DigitChars[(n % 10) + 1]>>

\* str(n) for an int
Str(n) == IF n < 0 THEN <<"-">> \o StrNat(0 - n) ELSE StrNat(n)

RECURSIVE NatOf(_)
NatOf(chars) == IF chars = <<>> THEN 0 ELSE NatOf(SubSeq(chars, 1, Len(chars) - 1)) * 10 + DigitOf(chars[Len(chars)])

\* int(s) for a str: an optional sign and decimal digits, ValueError otherwise.
IntOfStr(chars) ==
    LET signed == chars # <<>> /\ chars[1] \in {"+", "-"}
        digits == IF signed THEN Tail(chars) ELSE chars
        ok == digits # <<>> /\ \A i \in 1..Len(digits) : IsDigit(digits[i])
    IN  IF ~ok THEN [ok |-> FALSE, v |-> 0]
        ELSE IF signed /\ chars[1] = "-" THEN [ok |-> TRUE, v |-> 0 - NatOf(digits)]
        ELSE [ok |-> TRUE, v |-> NatOf(digits)]

\* Mutant: only numbers are converted.
safe_int_Strict(value, default) ==
    IF value.t = "int" THEN value.v ELSE default

\* _safe_int(value, default)
safe_int(value, default) ==
    IF value.t = "null" THEN default
    ELSE IF value.t = "int" THEN value.v
    ELSE IF IntOfStr(value.s).ok THEN IntOfStr(value.s).v
    ELSE default

\* "(" in skill_name and ")" in skill_name, on the names the model feeds in.
HasParens(s) ==
    s \in {"Firearms (SMG)", "Firearms (Handgun)", "Firearms (Rifle/Shotgun)", "Fighting (Brawl)",
           "Language (Own)", "Language (Other)", "Lore(Deep)", "Lore (Deep)"}

\* skill_name.split("(")[1].rstrip(")") on the names the model feeds in.
SplitSub(s) ==
    CASE s = "Firearms (SMG)" -> "SMG"
      [] s = "Firearms (Handgun)" -> "Handgun"
      [] s = "Firearms (Rifle/Shotgun)" -> "Rifle/Shotgun"
      [] s = "Fighting (Brawl)" -> "Brawl"
      [] s = "Language (Own)" -> "Own"
      [] s = "Language (Other)" -> "Other"
      [] s = "Lore(Deep)" -> "Deep"
      [] s = "Lore (Deep)" -> "Deep"
      [] OTHER -> ""

\* f"{skill_name} ({subskill})" on the parts the model feeds in.
JoinName(skill_name, subskill) ==
    CASE skill_name = "Firearms" /\ subskill = "SMG" -> "Firearms (SMG)"
      [] skill_name = "Firearms" /\ subskill = "Handgun" -> "Firearms (Handgun)"
      [] skill_name = "Firearms" /\ subskill = "Rifle/Shotgun" -> "Firearms (Rifle/Shotgun)"
      [] skill_name = "Fighting" /\ subskill = "Brawl" -> "Fighting (Brawl)"
      [] skill_name = "Language" /\ subskill = "Own" -> "Language (Own)"
      [] skill_name = "Language" /\ subskill = "Other" -> "Language (Other)"
      [] skill_name = "Lore" /\ subskill = "Deep" -> "Lore (Deep)"
      [] OTHER -> "?"

\* The name parse_dholes_house_json stores a source entry under.
FullName(skill_entry) ==
    LET skill_name == Get(skill_entry, "name", "")
        subskill == Get(skill_entry, "subskill", "None")
    IN  IF subskill # "" /\ subskill # "None" THEN JoinName(skill_name, subskill) ELSE skill_name

\* Mutant: entries of value 0 are stored as well.
StoresSkill_All(skill_value) == TRUE

\* The condition under which the loop stores an entry.
StoresSkill(skill_value) == skill_value > 0

\* The loop over the source skill entries: the skills dict after the first
\* k entries.
RECURSIVE ImportSkills(_, _)
ImportSkills(skills_list, k) ==
    IF k = 0 THEN [n \in {} |-> [value |-> 0]]
    ELSE LET before == ImportSkills(skills_list, k - 1)
             skill_entry == skills_list[k]
             skill_name == Get(skill_entry, "name", "")
             skill_value == safe_int(Get(skill_entry, "value", JInt(0)), 0)
             full_name == FullName(skill_entry)
         IN  IF skill_name = "" THEN before
             ELSE IF StoresSkill(skill_value)
             THEN Put(before, full_name, [value |-> skill_value,
                                          checked |-> FALSE,
                                          eligible |-> FALSE,
                                          custom |-> ~is_standard_skill(full_name)])
             ELSE before

\* mythos_value after the first k entries.
RECURSIVE ImportMythos(_, _)
ImportMythos(skills_list, k) ==
    IF k = 0 THEN 0
    ELSE LET skill_entry == skills_list[k]
         IN  IF Get(skill_entry, "name", "") = "Cthulhu Mythos"
             THEN safe_int(Get(skill_entry, "value", JInt(0)), 0)
             ELSE ImportMythos(skills_list, k - 1)

\* A raw document is modelled by what json.loads makes of it:
\*   [json |-> "invalid"]   text that is not JSON
\*   [json |-> "null"]      the JSON value null (or a number, true, false)
\*   [json |-> "array"]     a JSON array
\*   [json |-> "object", data |-> d]   a JSON object with the keys of d
Invalid == [json |-> "invalid"]
JsonNull == [json |-> "null"]
JsonArray == [json |-> "array"]
JsonObject(d) == [json |-> "object", data |-> d]

\* The first lines of parse_dholes_house_json: the exception raised before
\* the Investigator section is read, "" when there is none.
\* "Investigator" not in data raises TypeError when data is not a container.
ParseRaises(json_data) ==
    IF json_data.json = "invalid" THEN "ImportError"
    ELSE IF json_data.json = "null" THEN "TypeError"
    ELSE IF json_data.json = "array" THEN "ImportError"
    ELSE IF "Investigator" \notin DOMAIN json_data.data THEN "ImportError"
    ELSE ""

\* The record parse_dholes_house_json builds from the Investigator section.
ImportedCharacter(inv, now) ==
    LET personal == Get(inv, "PersonalDetails", [none |-> 0])
        name == Get(personal, "Name", "Unknown Investigator")
        occupation == Get(personal, "Occupation", "")
        chars == Get(inv, "Characteristics", [none |-> 0])
        characteristics == [c \in CHARACTERISTICS |-> safe_int(Get(chars, c, JInt(0)), 0)]
        hp_max0 == safe_int(Get(chars, "HitPtsMax", JInt(0)), 0)
        mp_max0 == safe_int(Get(chars, "MagicPtsMax", JInt(0)), 0)
        hp_current0 == safe_int(Get(chars, "HitPts", JInt(0)), 0)
        mp_current0 == safe_int(Get(chars, "MagicPts", JInt(0)), 0)
        luck == safe_int(Get(chars, "Luck", JInt(0)), 0)
        san_current == safe_int(Get(chars, "Sanity", JInt(0)), 0)
        san_max0 == safe_int(Get(chars, "SanityMax", JInt(99)), 0)
        hp_max == IF hp_max0 = 0 THEN (characteristics["CON"] + characteristics["SIZ"]) \div 10 ELSE hp_max0
        mp_max == IF mp_max0 = 0 THEN characteristics["POW"] \div 5 ELSE mp_max0
        hp_current == IF hp_current0 = 0 THEN hp_max ELSE hp_current0
        mp_current == IF mp_current0 = 0 THEN mp_max ELSE mp_current0
        skills_list == Get(Get(inv, "Skills", [none |-> 0]), "Skill", <<>>)
        skills == ImportSkills(skills_list, Len(skills_list))
        mythos_value == ImportMythos(skills_list, Len(skills_list))
        san_max == IF mythos_value > 0 THEN Min(san_max0, 99 - mythos_value) ELSE san_max0
    IN  [name |-> name,
         occupation |-> occupation,
         created_at |-> now,
         last_updated |-> now,
         version |-> 1,
         characteristics |-> characteristics,
         resources |-> [hp |-> [current |-> hp_current, max |-> hp_max],
                        mp |-> [current |-> mp_current, max |-> mp_max],
                        luck |-> [current |-> luck, starting |-> luck],
                        sanity |-> [current |-> san_current, max |-> san_max, mythos |-> mythos_value],
                        xp |-> 0],
         skills |-> skills,
         conditions |-> [major_wound |-> FALSE],
         pending |-> <<>>,
         changelog |-> <<>>]

\* parse_dholes_house_json: the exception raised, or the pair (character,
\* len(skills)).
parse_dholes_house_json(json_data, now) ==
    IF ParseRaises(json_data) # ""
    THEN [raises |-> ParseRaises(json_data)]
    ELSE LET character == ImportedCharacter(json_data.data["Investigator"], now)
         IN  [raises |-> "", character |-> character, count |-> Cardinality(DOMAIN character.skills)]

\* One entry of the exported skills list.
ExportEntry(skill_name, skill_data) ==
    LET value == Get(skill_data, "value", 0)
        base_name == IF HasParens(skill_name) THEN SplitBase(skill_name) ELSE skill_name
        subskill == IF HasParens(skill_name) THEN SplitSub(skill_name) ELSE ""
        skill_entry == [name |-> base_name,
                        value |-> JStr(Str(value)),
                        half |-> JStr(Str(value \div 2)),
                        fifth |-> JStr(Str(value \div 5))]
    IN  IF subskill # "" THEN Put(skill_entry, "subskill", subskill) ELSE skill_entry

\* skills.items() in the order of the dict, as a list of exported entries.
RECURSIVE ExportSkills(_, _)
ExportSkills(skills, names) ==
    IF names = {} THEN <<>>
    ELSE LET n == CHOOSE x \in names : TRUE
         IN  <<ExportEntry(n, skills[n])>> \o ExportSkills(skills, names \ {n})

\* export_to_dholes_house: the document json.dumps writes, as json.loads
\* reads it back.
export_to_dholes_house(character) ==
    LET chars == character.characteristics
        resources == character.resources
        skills == character.skills
        hp == Get(resources, "hp", [none |-> 0])
        mp == Get(resources, "mp", [none |-> 0])
        luck == Get(resources, "luck", [none |-> 0])
        san == Get(resources, "sanity", [none |-> 0])
        stats == [c \in CHARACTERISTICS |-> JStr(Str(Get(chars, c, 0)))]
        pools == [HitPts |-> JStr(Str(Get(hp, "current", 0))),
                  HitPtsMax |-> JStr(Str(Get(hp, "max", 0))),
                  MagicPts |-> JStr(Str(Get(mp, "current", 0))),
                  MagicPtsMax |-> JStr(Str(Get(mp, "max", 0))),
                  Luck |-> JStr(Str(Get(luck, "current", 0))),
                  Sanity |-> JStr(Str(Get(san, "current", 0))),
                  SanityMax |-> JStr(Str(Get(san, "max", 99)))]
    IN  JsonObject([Investigator |->
            [Header |-> [Version |-> "0.5.0"],
             PersonalDetails |-> [Name |-> character.name, Occupation |-> character.occupation],
             Characteristics |-> [k \in DOMAIN stats \cup DOMAIN pools |->
                                     IF k \in DOMAIN stats THEN stats[k] ELSE pools[k]],
             Skills |-> [Skill |-> ExportSkills(skills, DOMAIN skills)]]])

\* An attachment of the import message: none, a file whose name does not
\* end in .json, or a .json file with its content.
NoAttachment == [file |-> "none"]
NotJsonFile == [file |-> "other"]
JsonFile(content) == [file |-> "json", content |-> content]

\* aas_import up to "await attachment.read()": the handler is suspended
\* there and other commands run before it resumes.
aas_import_read(o, attachment) ==
    /\ IF HasCharacter(o)
       THEN /\ UNCHANGED importing
            /\ last' = Answer("import", o, "AlreadyExists")
       ELSE IF attachment.file = "none"
       THEN /\ UNCHANGED importing
            /\ last' = Answer("import", o, "NoAttachment")
       ELSE IF attachment.file # "json"
       THEN /\ UNCHANGED importing
            /\ last' = Answer("import", o, "NotJson")
       ELSE /\ importing' = [importing EXCEPT ![o] = Append(@, attachment.content)]
            /\ last' = Answer("import", o, "reading")
    /\ UNCHANGED <<store, pending_deletes, clock>>

\* The sequence s without its i-th element.
Without(s, i) == SubSeq(s, 1, i - 1) \o SubSeq(s, i + 1, Len(s))

\* aas_import from the point where the read has completed: parse, save and
\* answer. The existing-character test is not repeated.
aas_import_resume(o, i) ==
    /\ i \in 1..Len(importing[o])
    /\ importing' = [importing EXCEPT ![o] = Without(@, i)]
    /\ LET json_data == importing[o][i]
           parsed == parse_dholes_house_json(json_data, clock)
       IN  IF parsed.raises = "ImportError"
           THEN /\ UNCHANGED store
                /\ last' = [op |-> "import", owner |-> o, reply |-> "ImportError", document |-> json_data]
           ELSE IF parsed.raises # ""
           THEN /\ UNCHANGED store
                /\ last' = [op |-> "import", owner |-> o, reply |-> "CouldNotParse", document |-> json_data]
           ELSE /\ save_character(o, parsed.character)
                /\ last' = [op |-> "import", owner |-> o, reply |-> "ok", document |-> json_data,
                            count |-> parsed.count, before |-> store[o]]
    /\ UNCHANGED <<pending_deletes, clock>>

\* aas_export: reads the record and sends the document.
aas_export(o) ==
    /\ IF ~HasCharacter(o)
       THEN last' = Answer("export", o, "NoCharacter")
       ELSE last' = [op |-> "export", owner |-> o, reply |-> "ok",
                     document |-> export_to_dholes_house(load_character(o))]
    /\ UNCHANGED <<store, pending_deletes, clock, importing>>

-----------------------------------------------------------------------------
(* State after AAS.__init__ on an empty data directory *)

Init ==
    /\ store = [o \in Owners |-> NoFile]
    /\ pending_deletes = [o \in {} |-> 0]
    /\ clock = 0
    /\ importing = [o \in Owners |-> <<>>]
    /\ last = Answer("init", "", "ok")

-----------------------------------------------------------------------------
(* Inputs of the commands *)

Actors == {"u1"}

\* The eight values of "stats", STR CON DEX SIZ POW APP INT EDU.
Stats(str, con, dex, siz, pow, app, int, edu) ==
    [c \in CHARACTERISTICS |->
        CASE c = "STR" -> str [] c = "CON" -> con [] c = "DEX" -> dex [] c = "SIZ" -> siz
          [] c = "POW" -> pow [] c = "APP" -> app [] c = "INT" -> int [] OTHER -> edu]

Abs(n) == [form |-> "abs", n |-> n]
Delta(n) == [form |-> "delta", n |-> n]
Dice(n) == [form |-> "dice", n |-> n]
KwMax == [form |-> "max", n |-> 0]
Bad == [form |-> "bad", n |-> 0]
NoDelta == [form |-> "none", n |-> 0]

\* The dice handed to aas_advance: a pair of d100 faces per checked skill.
AdvanceDice(o, pairs) ==
    IF HasCharacter(o) THEN [CheckedSkills(load_character(o).skills) -> pairs] ELSE {<<>>}

-----------------------------------------------------------------------------
(* Spec: every command of the store, one owner, no time passing *)

RollInputs == {<<1, <<10>>>>, <<1, <<7>>>>}

Next ==
    \E o \in Actors :
        \/ aas_create(o, "Harvey Walters", "Professor")
        \/ aas_stats(o, Stats(40, 50, 45, 60, 65, 55, 80, 85))
        \/ Room(o, MaxChanges) /\ aas_set(o, "xp", Abs(5))
        \/ Room(o, MaxChanges) /\ aas_skill(o, "Wizardry", 98)
        \/ \E i \in RollInputs : cmd_skill(o, "Wizardry", Word("regular"), NoArg, i[1], i[2])
        \/ Room(o, MaxChanges) /\ resource_command(o, "hp", Delta(-6))
        \/ aas_check(o, "Wizardry")
        \/ \E d \in AdvanceDice(o, {<<99, 50>>}) : aas_advance(o, d)
        \/ Room(o, MaxChanges) /\ aas_spend(o, "Wizardry", 2)
        \/ aas_save(o, "")
        \/ aas_wound(o, NoArg)
        \/ \E c \in {NoArg, Word("confirm")} : aas_delete(o, c)

Spec == Init /\ [][Next]_vars

\* The owner's file before and after a step in which it exists on both sides.
Kept(o) == HasCharacter(o) /\ store'[o] \notin {NoFile, Torn}

C3_EveryMutationAppendsPending ==
    [][\A o \in Owners :
          (Kept(o) /\ store'[o] # store[o] /\ last'.op \notin {"create", "save", "delete"})
          => Len(store'[o].pending) > Len(store[o].pending)]_vars

-----------------------------------------------------------------------------
(* SpecSession: the pending list and the session changelog *)

SessionSetInputs == {Abs(5), Delta(-2)}

NextSession ==
    \E o \in Actors :
        \/ aas_create(o, "Harvey Walters", "Professor")
        \/ \E v \in SessionSetInputs : Room(o, MaxSessionChanges) /\ aas_set(o, "xp", v)
        \/ Room(o, MaxSessionChanges) /\ aas_skill(o, "Wizardry", 35)
        \/ \E note \in {"", "The Lighthouse"} : aas_save(o, note)

SpecSession == Init /\ [][NextSession]_vars

\* C1: a save on a file with an empty pending list is refused and changes
\* nothing; a save on a non-empty pending list answers ok and, in the same
\* step, raises version by one, puts at the head of the changelog an entry
\* with the new version, the note (or "Session <version>" when none is
\* given) and the whole pending list in its order, and empties pending.
C1_Save ==
    [][\A o \in Owners :
          (HasCharacter(o) /\ last'.op = "save" /\ last'.owner = o)
          => IF store[o].pending = <<>>
             THEN /\ last'.reply = "NoPendingChanges"
                  /\ store'[o] = store[o]
             ELSE /\ last'.reply = "ok"
                  /\ store'[o].version = store[o].version + 1
                  /\ Len(store'[o].changelog) = Len(store[o].changelog) + 1
                  /\ Tail(store'[o].changelog) = store[o].changelog
                  /\ Head(store'[o].changelog).v = store'[o].version
                  /\ Head(store'[o].changelog).changes = store[o].pending
                  /\ Head(store'[o].changelog).note =
                        (IF last'.note # "" THEN last'.note
                         ELSE CASE store'[o].version = 2 -> "Session 2"
                                [] store'[o].version = 3 -> "Session 3"
                                [] store'[o].version = 4 -> "Session 4"
                                [] OTHER -> "Session 5")
                  /\ store'[o].pending = <<>>]_vars

\* C1 witness: a second session was saved without a note, with two different
\* pending descriptions.
C1_Witness ==
    /\ last.op = "save" /\ last.reply = "ok" /\ last.note = ""
    /\ HasCharacter("u1")
    /\ store["u1"].version = 3
    /\ Len(store["u1"].changelog) = 2
    /\ Len(store["u1"].changelog[1].changes) = 2
    /\ store["u1"].changelog[1].changes[1] # store["u1"].changelog[1].changes[2]
    /\ store["u1"].changelog[1].note = "Session 3"
    /\ store["u1"].pending = <<>>

-----------------------------------------------------------------------------
(* SpecDelete: the two-step delete, with time passing between commands *)

TickSteps == {15, 16}

NextDelete ==
    \/ \E o \in Actors :
        \/ aas_create(o, "Harvey Walters", "Professor")
        \/ aas_wound(o, NoArg)
        \/ \E c \in {NoArg, Word("confirm")} : aas_delete(o, c)
    \/ \E d \in TickSteps : Tick(d)

SpecDelete == Init /\ [][NextDelete]_vars

\* A step in which owner o asks for a delete / confirms one.
RequestStep(o) ==
    last'.op = "delete" /\ last'.owner = o /\ last'.reply = "ConfirmRequested"
ConfirmStep(o) ==
    last'.op = "delete" /\ last'.owner = o /\ last'.reply \in {"deleted", "NoPendingDelete"}

\* C4: a confirm deletes the owner's file exactly when a request of the owner
\* is on record and the time since the most recent request is at most 30
\* seconds; a refused confirm leaves the file as it was. A request records
\* the current time, replacing an older one; nothing but a request or a
\* successful confirm touches the record of requests, so after a refused
\* confirm only a new request makes a confirm succeed.
C4_ConfirmWithinWindow ==
    [][\A o \in Owners :
          /\ (HasCharacter(o) /\ ConfirmStep(o))
             => IF o \in DOMAIN pending_deletes /\ clock - pending_deletes[o] <= 30
                THEN last'.reply = "deleted" /\ store'[o] = NoFile
                ELSE last'.reply = "NoPendingDelete" /\ store'[o] = store[o]
          /\ (HasCharacter(o) /\ RequestStep(o))
             => /\ o \in DOMAIN pending_deletes' /\ pending_deletes'[o] = clock
                /\ store'[o] = store[o]
          /\ (~RequestStep(o) /\ ~(ConfirmStep(o) /\ last'.reply = "deleted"))
             => /\ (o \in DOMAIN pending_deletes') = (o \in DOMAIN pending_deletes)
                /\ o \in DOMAIN pending_deletes => pending_deletes'[o] = pending_deletes[o]
          /\ clock' >= clock]_vars

\* C4 witness: a confirm 31 seconds after the request was refused, the file
\* is still there.
C4_Witness ==
    /\ last.op = "delete" /\ last.reply = "NoPendingDelete"
    /\ HasCharacter("u1")
    /\ "u1" \in DOMAIN pending_deletes
    /\ clock - pending_deletes["u1"] = 31

\* C5: a successful confirm removes the file and the owner's request, and a
\* request on record is never older than the file it is about: no owner
\* without a file has a request on record, a create leaves none behind, and
\* a confirm that finds none is refused and leaves the file untouched.
C5_DeleteForgetsRequest ==
    [][\A o \in Owners :
          /\ (ConfirmStep(o) /\ last'.reply = "deleted")
             => store'[o] = NoFile /\ o \notin DOMAIN pending_deletes'
          /\ ~HasCharacter(o) => o \notin DOMAIN pending_deletes
          /\ (o \in DOMAIN pending_deletes) => pending_deletes[o] >= store[o].created_at
          /\ (last'.op = "create" /\ last'.owner = o /\ last'.reply = "ok")
             => store'[o] # NoFile /\ o \notin DOMAIN pending_deletes'
          /\ (HasCharacter(o) /\ ConfirmStep(o) /\ o \notin DOMAIN pending_deletes)
             => last'.reply = "NoPendingDelete" /\ store'[o] = store[o]]_vars

\* C5 witness: a confirm has just deleted a file; neither the file nor the
\* request is left, less than 30 seconds after the request.
C5_Witness ==
    /\ last.op = "delete" /\ last.reply = "deleted" /\ last.owner = "u1"
    /\ store["u1"] = NoFile
    /\ "u1" \notin DOMAIN pending_deletes
    /\ clock = 16

-----------------------------------------------------------------------------
(* SpecAdvance: checking, advancement rolls and spending *)

\* <<skill, units face, tens face>>: against a stored value of 98 the faces
\* give 01 critical, 05 extreme, 41 hard, 61 regular, 99 failure, 100 fumble;
\* against the base 20 of Library Use 05 is a hard success.
AdvanceRollInputs ==
    {<<"Wizardry", 1, 10>>, <<"Wizardry", 5, 10>>, <<"Wizardry", 1, 4>>,
     <<"Wizardry", 1, 6>>, <<"Wizardry", 9, 9>>, <<"Wizardry", 10, 10>>,
     <<"Library Use", 5, 10>>}
AdvanceDicePairs == {<<98, 99>>, <<99, 98>>}
SpendAmounts == {2, 7}

NextAdvance ==
    \E o \in Actors :
        \/ aas_create(o, "Harvey Walters", "Professor")
        \/ Room(o, MaxAdvanceChanges) /\ aas_set(o, "xp", Abs(5))
        \/ Room(o, MaxAdvanceChanges) /\ aas_skill(o, "Wizardry", 98)
        \/ \E i \in AdvanceRollInputs :
              cmd_skill(o, i[1], Word("regular"), NoArg, i[2], <<i[3]>>)
        \/ \E n \in {"Wizardry", "Library Use"} : aas_check(o, n)
        \/ \E d \in AdvanceDice(o, AdvanceDicePairs) : aas_advance(o, d)
        \/ \E n \in {"Wizardry", "Spot"}, a \in SpendAmounts :
              Room(o, MaxAdvanceChanges) /\ aas_spend(o, n, a)

SpecAdvance == Init /\ [][NextAdvance]_vars

\* A file of owner o in store s, a stored entry of skill n in it, and a flag
\* of that entry (an absent flag reads as false, as .get(f, False) does).
FileIn(s, o) == s[o] \notin {NoFile, Torn}
StoredIn(s, o, n) == FileIn(s, o) /\ n \in DOMAIN s[o].skills
FlagIn(s, o, n, f) == StoredIn(s, o, n) /\ Get(s[o].skills[n], f, FALSE)

\* The value an unstored skill resolves to: the table base, 0 when custom.
BaseOf(o, n) ==
    IF is_standard_skill(n) THEN get_skill_base(n, store[o].characteristics) ELSE 0

\* A skill roll by o that was answered with a result.
RolledBy(o) == last'.op = "roll" /\ last'.owner = o /\ last'.reply = "ok"

\* C6: the explicit check and every successful skill roll (tier critical,
\* extreme, hard or regular) leave the skill stored and checked, and an
\* entry that did not exist before is created at the table base value (0
\* for a custom skill); a roll with tier failure or fumble changes no
\* check mark.
C6_SuccessfulRollChecks ==
    [][\A o \in Owners :
          FileIn(store, o) =>
             /\ ((last'.op = "check" /\ last'.owner = o /\ last'.reply = "ok")
                 \/ (RolledBy(o) /\ last'.said_checked))
                => /\ FlagIn(store', o, last'.skill, "checked")
                   /\ ~StoredIn(store, o, last'.skill)
                      => store'[o].skills[last'.skill].value = BaseOf(o, last'.skill)
             /\ (RolledBy(o) /\ last'.success_level \in {"failure", "fumble"})
                => store'[o].skills = store[o].skills]_vars

\* C7: a skill roll sets the extreme flag of the skill exactly when its tier
\* is extreme; once set, the flag stays set over every step that is not an
\* advancement (skill set, check, set, rolls, spend), and the advancement
\* roll of a skill whose flag is set is the higher of its two d100.
C7_ExtremeFlagSurvives ==
    [][\A o \in Owners :
          (FileIn(store, o) /\ FileIn(store', o)) =>
             /\ RolledBy(o)
                => IF last'.success_level = "extreme"
                   THEN FlagIn(store', o, last'.skill, "extreme")
                   ELSE FlagIn(store', o, last'.skill, "extreme")
                           = FlagIn(store, o, last'.skill, "extreme")
             /\ \A n \in DOMAIN store[o].skills :
                   /\ (FlagIn(store, o, n, "extreme") /\ last'.op # "advance")
                      => FlagIn(store', o, n, "extreme")
                   /\ (FlagIn(store, o, n, "extreme") /\ FlagIn(store, o, n, "checked")
                         /\ last'.op = "advance" /\ last'.owner = o)
                      => last'.rolls[n] = Max(last'.dice[n][1], last'.dice[n][2])]_vars

\* An advancement by o on the file it holds.
AdvanceStep(o) == FileIn(store, o) /\ last'.op = "advance" /\ last'.owner = o

\* What C8 says of every skill but the eligible flag: with no checked skill
\* the file is unchanged; otherwise exactly the checked skills are rolled
\* for, each keeps its value and ends with checked and extreme false, and
\* the entries of the other skills are unchanged.
AdvanceFrame(o) ==
    LET skills == store[o].skills
        checked == {n \in DOMAIN skills : FlagIn(store, o, n, "checked")}
    IN  IF checked = {}
        THEN last'.reply = "NoneChecked" /\ store'[o] = store[o]
        ELSE /\ last'.reply = "ok"
             /\ DOMAIN last'.rolls = checked
             /\ DOMAIN store'[o].skills = DOMAIN skills
             /\ \A n \in checked :
                   /\ store'[o].skills[n].value = skills[n].value
                   /\ ~FlagIn(store', o, n, "checked")
                   /\ ~FlagIn(store', o, n, "extreme")
             /\ \A n \in DOMAIN skills \ checked : store'[o].skills[n] = skills[n]

\* C8 as stated: after an advancement every skill that was checked is
\* eligible if and only if its roll was strictly greater than its value.
C8_EligibleIffRollPassed ==
    [][\A o \in Owners :
          AdvanceStep(o) =>
             /\ AdvanceFrame(o)
             /\ \A n \in DOMAIN store[o].skills :
                   FlagIn(store, o, n, "checked")
                   => (FlagIn(store', o, n, "eligible")
                          <=> last'.rolls[n] > store[o].skills[n].value)]_vars

\* C8: advance rolls for exactly the checked skills; afterwards each of them
\* is eligible if and only if its roll was strictly greater than its value
\* or it was eligible already, its value is unchanged and its checked and
\* extreme flags are false; the other skills are unchanged, and with no
\* checked skill the file is unchanged.
C8_EligibleIffPassedOrAlready ==
    [][\A o \in Owners :
          AdvanceStep(o) =>
             /\ AdvanceFrame(o)
             /\ \A n \in DOMAIN store[o].skills :
                   FlagIn(store, o, n, "checked")
                   => (FlagIn(store', o, n, "eligible")
                          <=> (last'.rolls[n] > store[o].skills[n].value
                               \/ FlagIn(store, o, n, "eligible")))]_vars

\* An advancement whose roll did not pass left an eligible skill eligible.
C8_Witness ==
    /\ last.op = "advance" /\ last.reply = "ok" /\ last.owner = "u1"
    /\ StoredIn(store, "u1", "Wizardry")
    /\ "Wizardry" \in DOMAIN last.rolls
    /\ last.rolls["Wizardry"] = store["u1"].skills["Wizardry"].value
    /\ FlagIn(store, "u1", "Wizardry", "eligible")
    /\ ~FlagIn(store, "u1", "Wizardry", "checked")

\* A spend by o on the file it holds.
SpendStep(o) == FileIn(store, o) /\ last'.op = "spend" /\ last'.owner = o

\* C9: a spend on a stored, eligible skill with xp >= amount is accepted,
\* sets the value to min(99, value + amount), takes from xp exactly the
\* increase applied and clears eligible; a stored skill becomes eligible
\* only by an advancement, so the next spend on it is refused until then.
C9_Spend ==
    [][\A o \in Owners :
          /\ SpendStep(o) =>
                LET n == last'.skill
                    xp == Get(store[o].resources, "xp", 0)
                IN  (FlagIn(store, o, n, "eligible") /\ xp >= last'.amount)
                    => /\ last'.reply = "ok"
                       /\ store'[o].skills[n].value
                             = Min(99, store[o].skills[n].value + last'.amount)
                       /\ store'[o].resources.xp
                             = xp - (store'[o].skills[n].value - store[o].skills[n].value)
                       /\ ~FlagIn(store', o, n, "eligible")
          /\ (FileIn(store, o) /\ FileIn(store', o)) =>
                \A n \in DOMAIN store'[o].skills :
                   (~FlagIn(store, o, n, "eligible") /\ FlagIn(store', o, n, "eligible"))
                   => last'.op = "advance"]_vars

\* A spend of 2 on a skill at 98 raised it to 99 and took one point of five.
C9_Witness ==
    /\ last.op = "spend" /\ last.reply = "ok" /\ last.amount = 2
    /\ StoredIn(store, "u1", last.skill)
    /\ store["u1"].skills[last.skill].value = 99
    /\ store["u1"].resources.xp = 4
    /\ ~FlagIn(store, "u1", last.skill, "eligible")

\* C10: a spend on a skill with no stored entry is answered NotFound, on a
\* stored skill that is not eligible NotEligible, and on an eligible skill
\* with xp < amount InsufficientXP; each leaves the file as it was.
C10_SpendRefused ==
    [][\A o \in Owners :
          SpendStep(o) =>
             LET n == last'.skill
                 xp == Get(store[o].resources, "xp", 0)
             IN  /\ ~StoredIn(store, o, n)
                    => last'.reply = "NotFound" /\ store'[o] = store[o]
                 /\ (StoredIn(store, o, n) /\ ~FlagIn(store, o, n, "eligible"))
                    => last'.reply = "NotEligible" /\ store'[o] = store[o]
                 /\ (FlagIn(store, o, n, "eligible") /\ xp < last'.amount)
                    => last'.reply = "InsufficientXP" /\ store'[o] = store[o]]_vars

\* A spend of 7 from a pool of 5 was refused on a skill at 98, which the cap
\* would have let rise by one point only.
C10_Witness ==
    /\ last.op = "spend" /\ last.reply = "InsufficientXP" /\ last.amount = 7
    /\ StoredIn(store, "u1", last.skill)
    /\ store["u1"].skills[last.skill].value = 98
    /\ store["u1"].resources.xp = 5
    /\ FlagIn(store, "u1", last.skill, "eligible")

-----------------------------------------------------------------------------
(* SpecMythos: derived maxima and skill values under check, advance, spend *)

MythosDicePairs == {<<50, 99>>}
MythosSpendAmounts == {2, -1}

NextMythos ==
    \E o \in Actors :
        \/ aas_create(o, "Harvey Walters", "Professor")
        \/ aas_stats(o, Stats(40, 50, 45, 60, 65, 55, 80, 85))
        \/ Room(o, MaxMythosChanges) /\ aas_set(o, "xp", Abs(5))
        \/ Room(o, MaxMythosChanges) /\ aas_skill(o, "mythos", 10)
        \/ aas_check(o, "mythos")
        \/ \E d \in AdvanceDice(o, MythosDicePairs) : aas_advance(o, d)
        \/ \E a \in MythosSpendAmounts :
              Room(o, MaxMythosChanges) /\ aas_spend(o, "mythos", a)

SpecMythos == Init /\ [][NextMythos]_vars

\* The stored Cthulhu Mythos value, 0 when the skill has no entry.
MythosOf(o) ==
    IF "Cthulhu Mythos" \in DOMAIN store[o].skills
    THEN store[o].skills["Cthulhu Mythos"].value
    ELSE 0

\* C11: in every state of a stored file hp.max = (CON + SIZ) // 10,
\* mp.max = POW // 5 and sanity.max = 99 minus the stored Cthulhu Mythos
\* value (0 when the skill has no entry).
C11_DerivedMaxima ==
    \A o \in Owners :
        FileIn(store, o) =>
           /\ store[o].resources.hp.max
                 = (store[o].characteristics["CON"] + store[o].characteristics["SIZ"]) \div 10
           /\ store[o].resources.mp.max = store[o].characteristics["POW"] \div 5
           /\ store[o].resources.sanity.max = 99 - MythosOf(o)

\* C13: every stored skill value lies in 0..99.
C13_SkillValuesInRange ==
    \A o \in Owners :
        FileIn(store, o) =>
           \A n \in DOMAIN store[o].skills : store[o].skills[n].value \in 0..99

-----------------------------------------------------------------------------
(* SpecStats: characteristics, derived maxima and resource currents *)

StatsInputs ==
    {Stats(40, 50, 45, 60, 65, 55, 80, 85),
     Stats(0, 50, 45, 60, 65, 55, 80, 85),
     Stats(40, 50, 45, 60, 65, 55, 80, 100)}

StatsSetInputs ==
    {<<"STR", Abs(0)>>, <<"STR", Abs(150)>>, <<"STR", KwMax>>, <<"CON", Abs(1)>>,
     <<"CON", Delta(60)>>, <<"POW", Delta(-60)>>, <<"mp", Delta(-3)>>,
     <<"luck", Abs(120)>>, <<"hp", Delta(-20)>>}

NextStats ==
    \E o \in Actors :
        \/ aas_create(o, "Harvey Walters", "Professor")
        \/ \E v \in StatsInputs : aas_stats(o, v)
        \/ \E i \in StatsSetInputs : Room(o, MaxStatsChanges) /\ aas_set(o, i[1], i[2])

SpecStats == Init /\ [][NextStats]_vars

\* C12: in every state of a stored file mp.current, sanity.current and
\* luck.current lie in [0, max] of their resource (99 for luck, which
\* stores no max), hp.current is at most hp.max, and xp is >= 0.
C12_CurrentsWithinMax ==
    \A o \in Owners :
        FileIn(store, o) =>
           LET res == store[o].resources
           IN  /\ res.mp.current >= 0 /\ res.mp.current <= res.mp.max
               /\ res.sanity.current >= 0 /\ res.sanity.current <= res.sanity.max
               /\ res.luck.current >= 0 /\ res.luck.current <= Get(res.luck, "max", 99)
               /\ res.hp.current <= res.hp.max
               /\ res.xp >= 0

\* C17: stats is refused, leaving the file as it was, exactly when one of
\* its eight values is outside 1..99; a characteristic that a step changes
\* ends in 1..99, and one that is in 1..99 stays there while the file is kept.
C17_CharacteristicsInRange ==
    [][\A o \in Owners :
          Kept(o) =>
             /\ (last'.op = "stats" /\ last'.owner = o)
                => IF \E c \in CHARACTERISTICS : last'.values[c] \notin 1..99
                   THEN last'.reply = "ValidationError" /\ store'[o] = store[o]
                   ELSE last'.reply = "ok"
             /\ \A c \in CHARACTERISTICS :
                   (store'[o].characteristics[c] # store[o].characteristics[c]
                       \/ store[o].characteristics[c] \in 1..99)
                   => store'[o].characteristics[c] \in 1..99]_vars

\* A stats with a value of 100 was refused on a file whose STR a set of 0
\* had clamped to 1 and whose CON a set of +60 had clamped to 99.
C17_Witness ==
    /\ last.op = "stats" /\ last.reply = "ValidationError" /\ last.owner = "u1"
    /\ last.values["EDU"] = 100
    /\ FileIn(store, "u1")
    /\ store["u1"].characteristics["STR"] = 1
    /\ store["u1"].characteristics["CON"] = 99

\* C18: after an accepted stats the characteristics are the eight values,
\* hp.current = hp.max = (CON + SIZ) // 10, mp.current = mp.max = POW // 5
\* and sanity.current = POW.
C18_StatsSetsDerived ==
    [][\A o \in Owners :
          (FileIn(store, o) /\ last'.op = "stats" /\ last'.owner = o /\ last'.reply = "ok")
          => LET v == last'.values
                 res == store'[o].resources
             IN  /\ store'[o].characteristics = v
                 /\ res.hp.max = (v["CON"] + v["SIZ"]) \div 10
                 /\ res.hp.current = res.hp.max
                 /\ res.mp.max = v["POW"] \div 5
                 /\ res.mp.current = res.mp.max
                 /\ res.sanity.current = v["POW"]]_vars

\* stats 40 50 45 60 65 55 80 85 gave hp.max 11, mp.max 13, sanity 65.
C18_Witness ==
    /\ last.op = "stats" /\ last.reply = "ok" /\ last.owner = "u1"
    /\ last.values = Stats(40, 50, 45, 60, 65, 55, 80, 85)
    /\ store["u1"].resources.hp.max = 11
    /\ store["u1"].resources.hp.current = 11
    /\ store["u1"].resources.mp.max = 13
    /\ store["u1"].resources.sanity.current = 65
    /\ store["u1"].pending = <<>>

-----------------------------------------------------------------------------
(* SpecWound: hp changes and the major wound *)

\* CON 10 and SIZ 90: hp.max 10 and a major-wound threshold of 5.
WoundSetInputs == {Abs(5), Delta(-4), KwMax}
WoundQuickInputs == {Delta(-5), Delta(3), KwMax, NoDelta}
WoundStates == {NoArg, Word("on"), Word("off"), Word("maybe")}

NextWound ==
    \E o \in Actors :
        \/ aas_create(o, "Harvey Walters", "Professor")
        \/ aas_stats(o, Stats(40, 10, 45, 90, 65, 55, 80, 85))
        \/ \E v \in WoundSetInputs : Room(o, MaxWoundChanges) /\ aas_set(o, "hp", v)
        \/ \E d \in WoundQuickInputs :
              Room(o, MaxWoundChanges) /\ resource_command(o, "hp", d)
        \/ \E w \in WoundStates : aas_wound(o, w)

SpecWound == Init /\ [][NextWound]_vars

\* C14: after a set or a quick hp command the major wound flag is true
\* exactly when it was true before or the step took hp.current from above
\* CON // 2 to CON // 2 or below; the flag turns false in a wound step only.
C14_MajorWound ==
    [][\A o \in Owners :
          Kept(o) =>
             LET old_val == store[o].resources.hp.current
                 new_val == store'[o].resources.hp.current
                 threshold == store[o].characteristics["CON"] \div 2
                 wounded == store[o].conditions.major_wound
             IN  /\ (last'.op \in {"set", "hp"} /\ last'.owner = o)
                    => (store'[o].conditions.major_wound
                           <=> (wounded \/ (new_val <= threshold /\ old_val > threshold)))
                 /\ (wounded /\ ~store'[o].conditions.major_wound)
                    => last'.op = "wound"]_vars

\* hp went from 10 to the threshold 5 and back to 10: the wound is still on.
C14_Witness ==
    /\ last.op \in {"set", "hp"} /\ last.reply = "ok" /\ last.owner = "u1"
    /\ FileIn(store, "u1")
    /\ store["u1"].conditions.major_wound
    /\ store["u1"].resources.hp.current = 10
    /\ Len(store["u1"].pending) = 2
    /\ store["u1"].pending[1].old = 10 /\ store["u1"].pending[1].new = 5
    /\ store["u1"].pending[2].old = 5 /\ store["u1"].pending[2].new = 10

\* C15: a create by an owner who has a file is answered AlreadyExists and
\* leaves the file as it was; otherwise it stores a file with the eight
\* characteristics 0, the currents of hp, mp, luck and sanity 0, hp.max 0,
\* mp.max 0, sanity.max 99, xp 0, no skills, no major wound, empty pending,
\* empty changelog and version 1.
C15_Create ==
    [][\A o \in Owners :
          (last'.op = "create" /\ last'.owner = o)
          => IF FileIn(store, o)
             THEN last'.reply = "AlreadyExists" /\ store'[o] = store[o]
             ELSE /\ last'.reply = "ok"
                  /\ FileIn(store', o)
                  /\ \A c \in CHARACTERISTICS : store'[o].characteristics[c] = 0
                  /\ DOMAIN store'[o].characteristics = CHARACTERISTICS
                  /\ store'[o].resources.hp = [current |-> 0, max |-> 0]
                  /\ store'[o].resources.mp = [current |-> 0, max |-> 0]
                  /\ store'[o].resources.luck.current = 0
                  /\ store'[o].resources.sanity.current = 0
                  /\ store'[o].resources.sanity.max = 99
                  /\ store'[o].resources.xp = 0
                  /\ DOMAIN store'[o].skills = {}
                  /\ store'[o].conditions.major_wound = FALSE
                  /\ store'[o].pending = <<>>
                  /\ store'[o].changelog = <<>>
                  /\ store'[o].version = 1]_vars

\* A create was refused on a file that stats and two sets had changed.
C15_Witness ==
    /\ last.op = "create" /\ last.reply = "AlreadyExists" /\ last.owner = "u1"
    /\ FileIn(store, "u1")
    /\ store["u1"].characteristics["STR"] = 99
    /\ store["u1"].resources.hp.max = 11
    /\ Len(store["u1"].pending) = 2

-----------------------------------------------------------------------------
(* SpecSkill: setting skills *)

SkillNames == {"mythos", "Wizardry", "Firearms (SMG)"}
SkillValues == {-5, 35, 120}
SkillDicePairs == {<<50, 99>>}

NextSkill ==
    \E o \in Actors :
        \/ aas_create(o, "Harvey Walters", "Professor")
        \/ \E n \in SkillNames, v \in SkillValues :
              Room(o, MaxSkillChanges) /\ aas_skill(o, n, v)
        \/ \E n \in {"mythos", "Wizardry"} : aas_check(o, n)
        \/ \E d \in AdvanceDice(o, SkillDicePairs) : aas_advance(o, d)

SpecSkill == Init /\ [][NextSkill]_vars

\* The canonical name of the names fed to skill set: only "mythos" is an alias.
Canonical(name) == IF name = "mythos" THEN "Cthulhu Mythos" ELSE name

\* A standard skill: a key of the table or a member of a family of the table
\* (the same name before the parenthesis).
Standard(n) ==
    \/ n \in StandardNames
    \/ \E s \in StandardNames : SplitBase(s) = SplitBase(n)

-----------------------------------------------------------------------------
(* SpecCrash: writes that do not complete *)

NextCrash ==
    \E o \in Actors :
        \/ aas_create(o, "Harvey Walters", "Professor")
        \/ \E v \in SessionSetInputs : Room(o, MaxSessionChanges) /\ aas_set(o, "xp", v)
        \/ Room(o, MaxSessionChanges) /\ aas_skill(o, "Wizardry", 35)
        \/ aas_save(o, "")
        \/ \E outcome \in FailedWriteOutcomes : save_character_fails(o, outcome)

SpecCrash == Init /\ [][NextCrash]_vars

\* C19: a write that fails or is cut short leaves the stored file of the
\* owner as it was, and the file still loads.
C19_FailedWriteKeepsFile ==
    [][\A o \in Owners :
          (last'.op = "write failed" /\ last'.owner = o /\ FileIn(store, o))
          => store'[o] = store[o] /\ FileIn(store', o)]_vars

-----------------------------------------------------------------------------
(* SpecOwners: two owners *)

NextOwners ==
    \E o \in Owners :
        \/ aas_create(o, "Harvey Walters", "Professor")
        \/ Room(o, MaxChanges) /\ aas_set(o, "xp", Abs(5))
        \/ aas_wound(o, NoArg)
        \/ aas_save(o, "")
        \/ \E c \in {NoArg, Word("confirm")} : aas_delete(o, c)

SpecOwners == Init /\ [][NextOwners]_vars

\* C20: the store holds one file per owner id, and a command issued by one
\* owner leaves the file and the delete request of every other owner as
\* they were.
C20_OwnersAreSeparate ==
    [][\A o \in Owners :
          last'.owner # o
          => /\ store'[o] = store[o]
             /\ (o \in DOMAIN pending_deletes') <=> (o \in DOMAIN pending_deletes)
             /\ o \in DOMAIN pending_deletes => pending_deletes'[o] = pending_deletes[o]]_vars

\* u2 deleted its file while u1 keeps a changed file and an open delete
\* request.
C20_Witness ==
    /\ last.op = "delete" /\ last.reply = "deleted" /\ last.owner = "u2"
    /\ store["u2"] = NoFile
    /\ FileIn(store, "u1")
    /\ store["u1"].resources.xp = 5
    /\ store["u1"].conditions.major_wound
    /\ "u1" \in DOMAIN pending_deletes

-----------------------------------------------------------------------------
(* SpecRace: an import suspended at its read while other commands of the   *)
(* same owner run                                                          *)

\* A Dhole's House document with the given name, characteristics and skill
\* entries.
DholesDoc(name, chars, skills_list) ==
    JsonObject([Investigator |-> [PersonalDetails |-> [Name |-> name, Occupation |-> "Antiquarian"],
                                  Characteristics |-> chars,
                                  Skills |-> [Skill |-> skills_list]]])

DocAlice ==
    DholesDoc("Alice Carter", [STR |-> JStr(<<"5", "0">>), CON |-> JStr(<<"6", "0">>)],
              <<[name |-> "Library Use", value |-> JStr(<<"7", "5">>)]>>)

DocBob ==
    DholesDoc("Bob Drake", [STR |-> JStr(<<"4", "0">>), POW |-> JInt(55)],
              <<[name |-> "Fighting", value |-> JStr(<<"6", "0">>), subskill |-> "Brawl"]>>)

RaceAttachments == {JsonFile(DocAlice), JsonFile(DocBob)}

NextRace ==
    \E o \in Actors :
        \/ aas_create(o, "Harvey Walters", "Professor")
        \/ Room(o, MaxRaceChanges) /\ aas_set(o, "xp", Abs(5))
        \/ \E a \in RaceAttachments : Len(importing[o]) < MaxReads /\ aas_import_read(o, a)
        \/ \E i \in 1..MaxReads : aas_import_resume(o, i)
        \/ \E c \in {NoArg, Word("confirm")} : aas_delete(o, c)

SpecRace == Init /\ [][NextRace]_vars

\* A step in which a suspended import of the owner resumes and saves.
ResumeStep(o) ==
    /\ Len(importing'[o]) < Len(importing[o])
    /\ last'.op = "import" /\ last'.owner = o /\ last'.reply \notin {"ImportError", "CouldNotParse"}

\* C21: an import that loaded the owner's record (found none) before another
\* command of the same owner saved one rewrites the whole file when it
\* resumes: the stored record is the record the import built from its own
\* document alone, nothing of the other writer's record is kept, and the
\* command answers as a successful import.
C21_LastWriteWins ==
    [][\A o \in Actors :
          ResumeStep(o) /\ HasCharacter(o)
          => /\ last'.reply = "ok"
             /\ store'[o] = [parse_dholes_house_json(last'.document, clock).character
                                EXCEPT !.last_updated = clock]
             /\ store'[o].resources.xp = 0
             /\ store'[o].pending = <<>>]_vars

\* An import resumed over a record that create and set wrote after the
\* import's load: the xp and the pending entry of that record are gone.
C21_Witness ==
    /\ last.op = "import" /\ last.reply = "ok"
    /\ last.before # NoFile
    /\ last.before.name = "Harvey Walters"
    /\ last.before.resources.xp = 5
    /\ Len(last.before.pending) = 1
    /\ store["u1"].name = "Alice Carter"
    /\ store["u1"].resources.xp = 0
    /\ store["u1"].pending = <<>>

-----------------------------------------------------------------------------
(* Specifications of the pure functions: the initial states hold a call    *)
(* with its arguments, the one action returns its result                   *)

\* The store of a cog that has handled no command.
Fresh ==
    /\ store = [o \in Owners |-> NoFile]
    /\ pending_deletes = [o \in {} |-> 0]
    /\ clock = 0
    /\ importing = [o \in Owners |-> <<>>]

Rolls == 1..100
Thresholds == 0..99
Faces == 1..10
Difficulties == {"regular", "hard", "extreme"}

(* SpecLevel: get_success_level *)

InitLevel ==
    /\ Fresh
    /\ last \in {[op |-> "call", fn |-> "get_success_level", roll |-> r, skill |-> t] :
                    r \in Rolls, t \in Thresholds}

ReturnLevel ==
    /\ last.op = "call"
    /\ last' = [op |-> "return", fn |-> "get_success_level", roll |-> last.roll, skill |-> last.skill,
                result |-> get_success_level(last.roll, last.skill)]
    /\ UNCHANGED <<store, pending_deletes, clock, importing>>

SpecLevel == InitLevel /\ [][ReturnLevel]_vars

\* C22: for a roll in 1..100 against a threshold in 0..99 the tier is
\* Critical on 1; else Fumble on 100, or on 96..99 when the threshold is below
\* 50; else Extreme up to max(1, threshold // 5); else Hard up to
\* max(1, threshold // 2); else Regular up to the threshold; else Failure.
C22_SuccessLevel ==
    last.op = "return" =>
        LET roll == last.roll
            threshold == last.skill
        IN  /\ (roll = 1) <=> (last.result = "critical")
            /\ (roll # 1 /\ (roll = 100 \/ (threshold < 50 /\ roll >= 96))) <=> (last.result = "fumble")
            /\ (roll \in 2..95 \/ (roll \in 96..99 /\ threshold >= 50))
               => /\ (roll <= Max(1, threshold \div 5)) <=> (last.result = "extreme")
                  /\ (roll > Max(1, threshold \div 5) /\ roll <= Max(1, threshold \div 2))
                        <=> (last.result = "hard")
                  /\ (roll > Max(1, threshold \div 5) /\ roll > Max(1, threshold \div 2)
                        /\ roll <= threshold) <=> (last.result = "regular")
                  /\ (roll > Max(1, threshold \div 5) /\ roll > Max(1, threshold \div 2)
                        /\ roll > threshold) <=> (last.result = "failure")
            /\ (roll = 99 /\ threshold = 99) => last.result = "regular"
            /\ (roll = 96 /\ threshold = 50) => last.result = "failure"

\* 96 against 50 has been classified: the fumble range stops below 50.
C22_Witness ==
    last.op = "return" /\ last.roll = 96 /\ last.skill = 50 /\ last.result = "failure"

(* SpecCheck: skill_check and characteristic_check without modifier dice *)

InitCheck ==
    /\ Fresh
    /\ last \in {[op |-> "call", fn |-> f, value |-> v, difficulty |-> d, units_face |-> u, tens_faces |-> <<t>>] :
                    f \in {"skill_check", "characteristic_check"}, v \in Thresholds,
                    d \in Difficulties, u \in Faces, t \in Faces}

ReturnCheck ==
    /\ last.op = "call"
    /\ last' = [op |-> "return", fn |-> last.fn, value |-> last.value, difficulty |-> last.difficulty,
                result |-> IF last.fn = "skill_check"
                           THEN skill_check("Wizardry", last.value, last.difficulty, 0, 0, FALSE, TRUE,
                                            last.units_face, last.tens_faces)
                           ELSE characteristic_check("STR", last.value, last.difficulty, 0, 0,
                                                     last.units_face, last.tens_faces)]
    /\ UNCHANGED <<store, pending_deletes, clock, importing>>

SpecCheck == InitCheck /\ [][ReturnCheck]_vars

DiceCounts == 0..MaxDice

InitDice ==
    /\ Fresh
    /\ \E b \in DiceCounts, p \in DiceCounts, u \in Faces :
          \E t \in [1..TensDiceCount(b, p) -> Faces] :
              last = [op |-> "call", fn |-> "roll_d100", bonus_dice |-> b, penalty_dice |-> p,
                      units_face |-> u, tens_faces |-> t]

ReturnDice ==
    /\ last.op = "call"
    /\ last' = [op |-> "return", fn |-> "roll_d100", bonus_dice |-> last.bonus_dice,
                penalty_dice |-> last.penalty_dice, units_face |-> last.units_face,
                tens_faces |-> last.tens_faces,
                result |-> roll_d100(last.bonus_dice, last.penalty_dice, last.units_face, last.tens_faces)]
    /\ UNCHANGED <<store, pending_deletes, clock, importing>>

SpecDice == InitDice /\ [][ReturnDice]_vars

\* The digit a die face stands for: face 10 is digit 0.
DigitOfFace(f) == IF f = 10 THEN 0 ELSE f

\* The tens digit a final roll was formed from.
TensOf(final_roll) == (final_roll \div 10) % 10

\* C24: face 10 counts as digit 0 and every other face as itself; the units
\* digit is in 0..9; the final roll is 100 when both digits are 0 and
\* tens * 10 + units otherwise, always in 1..100; no other pair of digits
\* gives the same final roll.
C24_FinalRoll ==
    last.op = "return" =>
        LET result == last.result
            units == DigitOfFace(last.units_face)
            tens == TensOf(result.final_roll)
        IN  /\ result.units = units /\ result.units \in 0..9
            /\ \A i \in DOMAIN last.tens_faces : result.tens_rolls[i] = DigitOfFace(last.tens_faces[i])
            /\ \E i \in DOMAIN last.tens_faces : tens = DigitOfFace(last.tens_faces[i])
            /\ result.final_roll = IF tens = 0 /\ units = 0 THEN 100 ELSE tens * 10 + units
            /\ result.final_roll \in 1..100
            /\ Len(last.tens_faces) = 1
               => \A u \in Faces, t \in Faces :
                     roll_d100(0, 0, u, <<t>>).final_roll = result.final_roll
                     => DigitOfFace(u) = units /\ DigitOfFace(t) = tens

\* Two faces of 10 have given 100.
C24_Witness ==
    /\ last.op = "return" /\ last.fn = "roll_d100"
    /\ last.units_face = 10 /\ last.tens_faces = <<10>>
    /\ last.result.final_roll = 100 /\ last.result.units = 0 /\ last.result.tens_rolls = <<0>>

\* C25: 1 + |bonus - penalty| tens dice are rolled; with more bonus than
\* penalty dice the lowest of them is kept, with fewer the highest, and with
\* as many (2 and 2 included) the single die rolled.
C25_KeptTensDie ==
    last.op = "return" =>
        LET result == last.result
            net == last.bonus_dice - last.penalty_dice
            faces == {last.tens_faces[i] : i \in DOMAIN last.tens_faces}
            kept == TensOf(result.final_roll)
        IN  /\ Len(result.tens_rolls) = 1 + (IF net < 0 THEN 0 - net ELSE net)
            /\ net > 0 => \E f \in faces : kept = DigitOfFace(f) /\ \A g \in faces : f <= g
            /\ net < 0 => \E f \in faces : kept = DigitOfFace(f) /\ \A g \in faces : f >= g
            /\ net = 0 => Len(result.tens_rolls) = 1 /\ kept = DigitOfFace(last.tens_faces[1])

\* Two bonus dice against none: of the faces 7, 3, 9 the 3 is kept; and two
\* against two elsewhere roll one die.
C25_Witness ==
    /\ last.op = "return" /\ last.fn = "roll_d100"
    /\ last.bonus_dice = 2 /\ last.penalty_dice = 0
    /\ last.tens_faces = <<7, 3, 9>> /\ last.units_face = 4
    /\ last.result.final_roll = 34

(* SpecMean: the sums of the final rolls over every combination of one     *)
(* units face and three tens faces, taken one triple of tens faces a step  *)

\* The k-th triple of tens faces, k in 0..999.
TensTriple(k) == <<(k % 10) + 1, ((k \div 10) % 10) + 1, (k \div 100) + 1>>

Triples == 1000

\* The sum of the final rolls of roll_d100 over the units faces 1..u.
RECURSIVE SumOverUnits(_, _, _, _)
SumOverUnits(bonus_dice, penalty_dice, tens_faces, u) ==
    IF u = 0 THEN 0
    ELSE roll_d100(bonus_dice, penalty_dice, u, tens_faces).final_roll
         + SumOverUnits(bonus_dice, penalty_dice, tens_faces, u - 1)

InitMean ==
    /\ Fresh
    /\ last = [op |-> "tally", done |-> 0, normal |-> 0, bonus |-> 0, penalty |-> 0]

\* One more triple of tens faces: the call without modifiers rolls only the
\* first of the three dice.
Tally ==
    /\ last.op = "tally" /\ last.done < Triples
    /\ LET t == TensTriple(last.done)
       IN  last' = [op |-> "tally", done |-> last.done + 1,
                    normal |-> last.normal + SumOverUnits(0, 0, <<t[1]>>, 10),
                    bonus |-> last.bonus + SumOverUnits(2, 0, t, 10),
                    penalty |-> last.penalty + SumOverUnits(0, 2, t, 10)]
    /\ UNCHANGED <<store, pending_deletes, clock, importing>>

SpecMean == InitMean /\ [][Tally]_vars

\* C26: summed over all 10 000 equally likely combinations of faces, the
\* final rolls with two bonus dice come to less than the final rolls without
\* modifiers, and those with two penalty dice to more; the means, the sums
\* divided by 10 000, compare the same way.
C26_MeanShift ==
    (last.op = "tally" /\ last.done = Triples)
    => /\ last.normal = 100 * ((100 * 101) \div 2)
       /\ last.bonus < last.normal
       /\ last.penalty > last.normal

\* All combinations have been summed: means 34.66, 50.5 and 59.86.
C26_Witness ==
    /\ last.op = "tally" /\ last.done = Triples
    /\ last.bonus = 346600 /\ last.normal = 505000 /\ last.penalty = 598600

-----------------------------------------------------------------------------
(* SpecPort: one owner builds a record and exports it, another imports the *)
(* exported file or an external one                                        *)

\* An external document with a subskill, a subskill of "None", two entries
\* without a usable value, one without a name and a number given as a number.
DocCarol ==
    DholesDoc("Carol Finch",
              [STR |-> JStr(<<"4", "0">>), CON |-> JStr(<<"5", "0">>), SIZ |-> JInt(60),
               POW |-> JStr(<<"6", "5">>), EDU |-> JStr(<<"x">>), Luck |-> JStr(<<"6", "5">>)],
              <<[name |-> "Library Use", value |-> JStr(<<"7", "5">>)],
                [name |-> "Occult", value |-> JStr(<<"0">>)],
                [name |-> "", value |-> JStr(<<"4", "0">>)],
                [name |-> "Fighting", value |-> JStr(<<"6", "0">>), subskill |-> "Brawl"],
                [name |-> "Dodge", value |-> JInt(30), subskill |-> "None"],
                [name |-> "History", value |-> JStr(<<"n", "/", "a">>)],
                [name |-> "Cthulhu Mythos", value |-> JStr(<<"1", "2">>)]>>)

PortSkillNames == {"Wizardry", "Firearms (SMG)", "Lore(Deep)"}
PortSkillValues == {0, 35}

\* What the second owner attaches: nothing, a file of another type, texts
\* and JSON values that are no Dhole's House document, an external document,
\* or the file the last export sent.
PortAttachments ==
    {NoAttachment, NotJsonFile, JsonFile(Invalid), JsonFile(JsonNull), JsonFile(JsonArray),
     JsonFile(JsonObject([Other |-> 0])), JsonFile(DocCarol)}
    \cup (IF last.op = "export" /\ last.reply = "ok" THEN {JsonFile(last.document)} ELSE {})

NextPort ==
    \/ aas_create("u1", "Harvey Walters", "Professor")
    \/ aas_stats("u1", Stats(40, 50, 45, 60, 65, 55, 80, 85))
    \/ \E n \in PortSkillNames, v \in PortSkillValues :
          Room("u1", MaxPortChanges) /\ aas_skill("u1", n, v)
    \/ importing["u1"] = <<>> /\ aas_import_read("u1", JsonFile(DocCarol))
    \/ aas_import_resume("u1", 1)
    \/ aas_export("u1")
    \/ \E a \in PortAttachments : importing["u2"] = <<>> /\ aas_import_read("u2", a)
    \/ aas_import_resume("u2", 1)

SpecPort == Init /\ [][NextPort]_vars

\* importCharacter(exportCharacter(c)) for a stored record c.
RoundTrip(c) == parse_dholes_house_json(export_to_dholes_house(c), clock)

\* C27: a record sent through export and import keeps its name and its eight
\* characteristic values; this holds for records that were themselves
\* imported from an external document.
C27_RoundTripCharacteristics ==
    \A o \in Owners :
        FileIn(store, o)
        => LET back == RoundTrip(store[o])
           IN  /\ back.raises = ""
               /\ back.character.name = store[o].name
               /\ \A c \in CHARACTERISTICS :
                     back.character.characteristics[c] = store[o].characteristics[c]

\* The second owner has imported the file exported from the first owner's
\* record, which has the characteristics 40 50 45 60 65 55 80 85.
C27_Witness ==
    /\ last.op = "import" /\ last.owner = "u2" /\ last.reply = "ok"
    /\ FileIn(store, "u1") /\ FileIn(store, "u2")
    /\ last.document = export_to_dholes_house(store["u1"])
    /\ store["u1"].characteristics["EDU"] = 85
    /\ store["u2"].characteristics = store["u1"].characteristics
    /\ store["u2"].name = "Harvey Walters"

\* C28: a record sent through export and import keeps every skill under its
\* name with its value, skills stored at 0 and skills named
\* "Base (Subskill)" included.
C28_RoundTripSkills ==
    \A o \in Owners :
        FileIn(store, o)
        => LET back == RoundTrip(store[o]).character.skills
           IN  \A n \in DOMAIN store[o].skills :
                  /\ n \in DOMAIN back
                  /\ back[n].value = store[o].skills[n].value

\* The names import stores for the entries of a document's skill list.
StoredNames(skills_list) ==
    {FullName(skills_list[i]) : i \in {j \in 1..Len(skills_list) :
        /\ Get(skills_list[j], "name", "") # ""
        /\ safe_int(Get(skills_list[j], "value", JInt(0)), 0) > 0}}

\* The owner's import of a document with an Investigator section has just
\* completed.
Imported(o) ==
    /\ last.op = "import" /\ last.owner = o /\ last.reply = "ok"

\* C29: an import produces a record at version 1 with empty pending and
\* changelog, xp 0, no major wound and every skill unchecked and not
\* eligible; its skills are the source entries that have a name and a value
\* above 0, under "Base (Subskill)" when the entry has a subskill; the count
\* it reports is the number of skills stored.
C29_ImportIsFresh ==
    \A o \in Owners :
        Imported(o)
        => LET c == store[o]
               skills_list == last.document.data["Investigator"]["Skills"]["Skill"]
           IN  /\ c.version = 1 /\ c.pending = <<>> /\ c.changelog = <<>>
               /\ c.resources.xp = 0
               /\ c.conditions.major_wound = FALSE
               /\ \A n \in DOMAIN c.skills : ~c.skills[n].checked /\ ~c.skills[n].eligible
               /\ DOMAIN c.skills = StoredNames(skills_list)
               /\ \A i \in 1..Len(skills_list) :
                     FullName(skills_list[i]) \in DOMAIN c.skills
                     => \E j \in 1..Len(skills_list) :
                           /\ FullName(skills_list[j]) = FullName(skills_list[i])
                           /\ c.skills[FullName(skills_list[i])].value
                                 = safe_int(Get(skills_list[j], "value", JInt(0)), 0)
               /\ last.count = Cardinality(DOMAIN c.skills)

\* The external document has been imported: four of its seven entries are
\* stored, "Fighting (Brawl)" and "Dodge" among them.
C29_Witness ==
    /\ Imported("u2")
    /\ last.document = DocCarol
    /\ DOMAIN store["u2"].skills = {"Library Use", "Fighting (Brawl)", "Dodge", "Cthulhu Mythos"}
    /\ store["u2"].skills["Dodge"].value = 30
    /\ last.count = 4

\* C30: an import of a document that does not parse or has no top-level
\* Investigator section ends with ImportError and the owner has no record
\* afterwards.
C30_BadDocumentIsImportError ==
    \A o \in Owners :
        (/\ last.op = "import" /\ last.owner = o
         /\ last.reply \notin {"AlreadyExists", "NoAttachment", "NotJson", "reading"}
         /\ \/ last.document.json # "object"
            \/ "Investigator" \notin DOMAIN last.document.data)
        => /\ last.reply = "ImportError"
           /\ store[o] = NoFile

\* The final roll one tens face gives with a units face and no modifier dice.
SingleRoll(units_face, tens_face) == roll_d100(0, 0, units_face, <<tens_face>>).final_roll

\* C31: with the units die and the tens faces as they fell, a roll with net
\* bonus dice is no higher than the roll any single one of the tens faces
\* gives with that units die, and a roll with net penalty dice is no lower.
C31_BonusNeverRaises ==
    (last.op = "return" /\ last.fn = "roll_d100") =>
        LET net == last.bonus_dice - last.penalty_dice
        IN  \A i \in DOMAIN last.tens_faces :
               /\ net > 0 => last.result.final_roll <= SingleRoll(last.units_face, last.tens_faces[i])
               /\ net < 0 => last.result.final_roll >= SingleRoll(last.units_face, last.tens_faces[i])

-----------------------------------------------------------------------------
(* SpecValues: set and the quick resource commands with every accepted     *)
(* form of value                                                           *)

NextValues ==
    \E o \in Actors :
        \/ aas_create(o, "Harvey Walters", "Professor")
        \/ aas_stats(o, Stats(40, 50, 45, 60, 65, 55, 80, 85))
        \/ \E t \in {"STR", "xp", "hp", "mp", "san", "luck"}, v \in {Abs(5), Delta(-2), KwMax} :
              Room(o, MaxValueChanges) /\ aas_set(o, t, v)
        \/ \E r \in {"hp", "mp", "luck"}, d \in {Delta(3), Delta(-2), KwMax} :
              Room(o, MaxValueChanges) /\ resource_command(o, r, d)
        \/ \E d \in {Delta(3), Delta(-2), KwMax} : Room(o, MaxValueChanges) /\ cmd_san(o, d)

SpecValues == Init /\ [][NextValues]_vars

\* C32: a set or a quick resource command on an existing record, with a
\* recognised target and an integer, a signed integer or "max" as value,
\* applies the change or answers with a validation message; it never ends in
\* an error no handler catches.
C32_NoUnhandledError ==
    (last.op \in {"set", "hp", "mp", "luck", "san"} /\ last.reply # "NoCharacter")
    => last.reply \in {"ok", "ValidationError"}

-----------------------------------------------------------------------------
(* SpecHurt: skill and characteristic rolls with and without a major wound *)

NextHurt ==
    \E o \in Actors :
        \/ aas_create(o, "Harvey Walters", "Professor")
        \/ aas_stats(o, Stats(40, 50, 45, 60, 65, 55, 80, 85))
        \/ Room(o, MaxHurtChanges) /\ aas_skill(o, "Wizardry", 35)
        \/ aas_wound(o, NoArg)
        \/ \E m \in {NoArg, Mod("+", 1), Mod("-", 1)}, u \in {4, 10},
                 t \in UNION {[1..n -> {2, 7}] : n \in 1..3} :
              cmd_skill(o, "Wizardry", Word("regular"), m, u, t)
        \/ \E m \in {NoArg, Mod("+", 1), Mod("-", 1)}, u \in {4, 10},
                 t \in UNION {[1..n -> {2, 7}] : n \in 1..3} :
              cmd_char(o, "STR", Word("regular"), m, u, t)

SpecHurt == Init /\ [][NextHurt]_vars

\* The owner's skill or characteristic roll has just been made.
Rolled(o) == last.op \in {"roll", "char"} /\ last.owner = o /\ last.reply = "ok"

\* C33: under a major wound a skill or characteristic roll is made with the
\* bonus dice of the caller's modifier and one penalty die more than it
\* gives: +1 then rolls a single tens die, and no modifier rolls two tens
\* dice and keeps the highest. Without a major wound the modifier's dice are
\* used as given.
C33_WoundAddsPenaltyDie ==
    \A o \in Actors :
        Rolled(o)
        => LET wound == store[o].conditions.major_wound
               given == parse_modifier(last.modifier)
               faces == {last.faces[i] : i \in DOMAIN last.faces}
           IN  /\ last.dice = <<given[1], given[2] + (IF wound THEN 1 ELSE 0)>>
               /\ Len(last.tens_rolls) = 1 + (IF last.dice[1] < last.dice[2]
                                              THEN last.dice[2] - last.dice[1]
                                              ELSE last.dice[1] - last.dice[2])
               /\ (wound /\ last.modifier = Mod("+", 1)) => Len(last.tens_rolls) = 1
               /\ (wound /\ last.modifier = NoArg)
                  => /\ Len(last.tens_rolls) = 2
                     /\ \E f \in faces : /\ \A g \in faces : f >= g
                                         /\ TensOf(last.roll) = DigitOfFace(f)
               /\ (~wound /\ last.modifier = NoArg) => Len(last.tens_rolls) = 1

\* A characteristic roll without modifier under a major wound: two tens dice,
\* 2 and 7, the 7 kept.
C33_Witness ==
    /\ Rolled("u1") /\ last.op = "char"
    /\ store["u1"].conditions.major_wound
    /\ last.modifier = NoArg
    /\ last.faces = <<2, 7>> /\ last.roll = 74

\* The tiers from worst to best.
Rank(tier) ==
    CASE tier = "fumble" -> 0 [] tier = "failure" -> 1 [] tier = "regular" -> 2
      [] tier = "hard" -> 3 [] tier = "extreme" -> 4 [] OTHER -> 5

\* C34: a tier of Extreme, Hard or Regular is only given to a roll that is
\* not above the threshold, and among the rolls 2..95 a lower roll against
\* the same threshold never gets a worse tier than a higher one.
C34_TierIsSound ==
    (last.op = "return" /\ last.fn = "get_success_level")
    => /\ last.result \in {"extreme", "hard", "regular"} => last.roll <= last.skill
       /\ last.roll \in 2..95
          => \A lower \in 2..95 :
                lower < last.roll
                => Rank(get_success_level(lower, last.skill)) >= Rank(last.result)

\* A roll of 2 against a threshold of 1: the floor max(1, ...) does not make
\* it a success.
C34_Witness ==
    /\ last.op = "return" /\ last.fn = "get_success_level"
    /\ last.roll = 2 /\ last.skill = 1 /\ last.result = "failure"

-----------------------------------------------------------------------------
(* The session changelog under every command that writes the record *)

\* The entry versions of a changelog strictly decrease from head to tail.
Decreasing(changelog) ==
    \A i \in 1..Len(changelog) - 1 : changelog[i].v > changelog[i + 1].v

\* old is what is left of new after dropping its newest entries.
IsSuffix(old, new) ==
    /\ Len(old) <= Len(new)
    /\ SubSeq(new, Len(new) - Len(old) + 1, Len(new)) = old

\* The state part of C35: version = 1 + length(changelog), the head entry
\* carries the record's version and the entry versions strictly decrease.
C35_VersionCountsSessions ==
    \A o \in Actors :
        FileIn(store, o)
        => /\ store[o].version = 1 + Len(store[o].changelog)
           /\ store[o].changelog # <<>> => Head(store[o].changelog).v = store[o].version
           /\ Decreasing(store[o].changelog)

\* Two sessions saved one after the other.
C35_TwoSessions ==
    /\ last.op = "save" /\ last.reply = "ok"
    /\ store["u1"].version = 3
    /\ Len(store["u1"].changelog) = 2

\* C35: in every state reachable from create the version is
\* 1 + length(changelog), the head entry carries the record's version, the
\* entry versions strictly decrease, and no later operation on the record
\* modifies or removes an entry that is in the changelog.
C35_EntriesAreKept ==
    [][\A o \in Actors :
          (FileIn(store, o) /\ FileIn(store', o))
          => /\ IsSuffix(store[o].changelog, store'[o].changelog)
             /\ store'[o].version = 1 + Len(store'[o].changelog)]_vars

-----------------------------------------------------------------------------
(* SpecEligible: the eligible flag and the changelog under every command   *)
(* that writes the record                                                  *)

MaxEligibleChanges == 2

NextEligible ==
    \E o \in Actors :
        \/ aas_create(o, "Harvey Walters", "Professor")
        \/ Room(o, MaxEligibleChanges) /\ aas_set(o, "xp", Abs(5))
        \/ Room(o, MaxEligibleChanges) /\ aas_skill(o, "Wizardry", 35)
        \/ aas_check(o, "Wizardry")
        \/ cmd_skill(o, "Wizardry", Word("regular"), NoArg, 9, <<10>>)
        \/ \E d \in AdvanceDice(o, {<<20, 20>>, <<99, 99>>}) : aas_advance(o, d)
        \/ Room(o, MaxEligibleChanges) /\ aas_spend(o, "Wizardry", 2)
        \/ aas_save(o, "")
        \/ aas_wound(o, NoArg)
        \/ Len(importing[o]) < 1 /\ aas_import_read(o, JsonFile(DocAlice))
        \/ aas_import_resume(o, 1)

SpecEligible == Init /\ [][NextEligible]_vars

\* C36: a skill's eligible flag becomes true only in a step of advance, for
\* a skill that was checked in the record advance loaded and whose roll was
\* above its value; a spend leaves the skill not eligible, so an eligible
\* skill passed advance since its last spend; set, skill set, check, rolls,
\* save, wound and import never turn the flag on.
C36_EligibleOnlyByAdvance ==
    [][\A o \in Actors :
          /\ \A n \in (IF FileIn(store', o) THEN DOMAIN store'[o].skills ELSE {}) :
                (FlagIn(store', o, n, "eligible") /\ ~FlagIn(store, o, n, "eligible"))
                => /\ last'.op = "advance" /\ last'.reply = "ok" /\ last'.owner = o
                   /\ FileIn(store, o)
                   /\ n \in CheckedSkills(store[o].skills)
                   /\ last'.rolls[n] > Get(store[o].skills[n], "value", 0)
          /\ (last'.op = "spend" /\ last'.reply = "ok" /\ last'.owner = o)
             => ~FlagIn(store', o, last'.skill, "eligible")]_vars

\* Wizardry spent once (the change is in the pending list), then checked
\* again and passed by advance: eligible for the second time.
C36_Witness ==
    /\ last.op = "advance" /\ last.reply = "ok"
    /\ FlagIn(store, "u1", "Wizardry", "eligible")
    /\ last.rolls["Wizardry"] = 99
    /\ \E i \in 1..Len(store["u1"].pending) : store["u1"].pending[i].fmt = "advanced"

\* C37: for every integer amount, zero and negative amounts included, a
\* spend never lowers the skill's value and never increases the XP pool.
C37_SpendNeverRefunds ==
    [][\A o \in Actors :
          (last'.op = "spend" /\ last'.reply = "ok" /\ last'.owner = o)
          => /\ store'[o].skills[last'.skill].value >= store[o].skills[last'.skill].value
             /\ store'[o].resources.xp <= store[o].resources.xp]_vars

\* C38: import never replaces an existing record, also when a create or
\* another import of the same owner completes while the import is suspended
\* at its read: the record stored first is still the stored record when the
\* import has finished.
C38_FirstRecordStays ==
    [][\A o \in Actors :
          (last'.op = "import" /\ last'.owner = o /\ FileIn(store, o))
          => store'[o] = store[o]]_vars

\* Every change a record holds, oldest first: the changes of its sessions
\* and then its pending list.
RECURSIVE SessionChanges(_)
SessionChanges(changelog) ==
    IF changelog = <<>> THEN <<>>
    ELSE SessionChanges(Tail(changelog)) \o Head(changelog).changes

AllChanges(character) == SessionChanges(character.changelog) \o character.pending

IsPrefix(old, new) == Len(old) <= Len(new) /\ SubSeq(new, 1, Len(old)) = old

C40_CreateKeepsPresentFile ==
    [][\A o \in Actors :
          (last'.op = "create" /\ last'.owner = o /\ store[o] # NoFile)
          => /\ last'.reply # "ok"
             /\ store'[o] = store[o]]_vars

====
